---- MODULE Spec2Model ----
(***************************************************************************)
(* Query-time retrieval, citation round-trip, conversation history and      *)
(* feedback of the chatbot backend (src/src/backend) and the ingest         *)
(* lambdas (src/src/ingest).                                                *)
(*                                                                          *)
(* Fourteen specifications share the module:                                *)
(*   SpecSelect   select_top_documents applied to a pool and a cap          *)
(*   SpecResolve  process_text applied to a text and two mappings           *)
(*   SpecMarkup   process_text applied to a text and to mappings whose      *)
(*                titles and URLs hold angle brackets, then to its output   *)
(*   SpecAnswer   add_meeting_list and process_text applied to a raw        *)
(*                answer, and once more to the resolved text                *)
(*   SpecCite     one invocation of lambda_handler in which no call fails:  *)
(*                any answer of the index, any minted tokens, any text of   *)
(*                the model                                                 *)
(*   SpecChat     invocations of lambda_handler one after the other         *)
(*                against the conversation table, any call failing or not   *)
(*   SpecConc     two instances of lambda_handler running at once           *)
(*   SpecSessions invocations one after the other on several sessions       *)
(*   SpecFuse     get_documents fusing a lexical and a semantic hit list    *)
(*   SpecChunk    create_chunks, one iteration of its loop a step           *)
(*   SpecFeedback chat and feedback requests on the conversation table      *)
(*   SpecRoute    the routing lambda and the cache reset, one after the     *)
(*                other, any S3 call failing or not                         *)
(*   SpecIngest   two ingest workers at once: routing and pdf processing    *)
(*   SpecText     two invocations of the text lambda at once                *)
(***************************************************************************)
EXTENDS Integers, Sequences, FiniteSets, TLC

\* ------------------------------------------------------------------ bounds
MaxPool == 7          \* hits in a pool handed to select_top_documents
MaxCap == 6           \* the largest cap select_top_documents is called with
Scores == 0..2        \* the fused scores of those hits
MaxPieces == 3        \* pieces a text given to the resolver is made of
MaxSel == 3           \* hits the index answers a request with
MaxInvocations == 4   \* invocations of lambda_handler in a run
MaxConcurrent == 2    \* invocations in a run of the two concurrent instances
MaxHits == 2          \* hits in each of the two raw lists of get_documents
MaxText == 5          \* characters of a text given to create_chunks
MaxChunkSize == 3     \* the largest chunk_size create_chunks is called with
MaxChunks == 6        \* iterations of the loop of create_chunks that are followed
MaxTurns == 2         \* chat requests in a run with feedback requests
MaxFeedbacks == 2     \* feedback requests in a run
MaxRuns == 2          \* invocations of each ingest worker in a run
MaxRoutes == 3        \* invocations of the routing lambda one after the other

VARIABLES
    pool,        \* hybrid_results["hits"]["hits"]: the hits handed to the selector
    max_docs,    \* the cap the selector is called with
    selected,    \* what select_top_documents returned
    sel_pc,      \* "call" before the selector ran, "done" after
    pt_text,     \* process_text's argument text
    pt_uuid,     \* process_text's argument uuid_mapping
    pt_meta,     \* process_text's argument metadata_mapping
    pt_out,      \* the outcome of process_text
    pt_pc,       \* "call" before process_text ran, "done" after
    store,       \* the conversation table: items keyed by (session_id, timestamp)
    clock,       \* int(time.time() * 1000) as last read
    nreq,        \* the number of invocations of lambda_handler so far
    puts,        \* the put_item calls made so far, in order, each with the number
                 \* of the invocation that made it
    req,         \* per handler instance: the position in lambda_handler and its locals
    fb,          \* the last request feedback_handler served, and its response
    lexical_results,   \* the hits of the lexical query of get_documents
    semantic_results,  \* the hits of its k-nearest-neighbour query
    ck_text,     \* create_chunks' argument text
    ck_size,     \* its argument chunk_size
    ck_overlap,  \* overlap_chars = int(chunk_size * overlap)
    ck_start,    \* the loop's start
    ck_chunks,   \* the chunks appended so far
    ck_pc,       \* "call" before create_chunks ran, "loop" in its loop, "done" after
    cache_file,  \* cache_file.txt: whether it exists, and the URIs in its lines
    processed_files,   \* the s3_uri keys of the processed-files table
    indexed,     \* per URI: the number of successful insertions into the index
    returned,    \* per URI: the routing invocations that returned it since the
                 \* last cache reset
    worker       \* per ingest invocation: its position and its locals

selVars == <<pool, max_docs, selected, sel_pc>>
ptVars == <<pt_text, pt_uuid, pt_meta, pt_out, pt_pc>>
chatVars == <<store, clock, nreq, puts, req>>
fuseVars == <<lexical_results, semantic_results>>
chunkVars == <<ck_text, ck_size, ck_overlap, ck_start, ck_chunks, ck_pc>>
ingestVars == <<cache_file, processed_files, indexed, returned, worker>>
\* what the query-time handlers other than feedback_handler leave alone
restVars == <<fb, fuseVars, chunkVars, ingestVars>>
vars == <<pool, max_docs, selected, sel_pc, pt_text, pt_uuid, pt_meta, pt_out,
          pt_pc, store, clock, nreq, puts, req, fb, lexical_results,
          semantic_results, ck_text, ck_size, ck_overlap, ck_start, ck_chunks,
          ck_pc, cache_file, processed_files, indexed, returned, worker>>

\* ------------------------------------------------------------- sequences
Min2(a, b) == IF a <= b THEN a ELSE b
Max2(a, b) == IF a >= b THEN a ELSE b

\* seq[:n] of Python: the first n elements, clamped to the length
Prefix(seq, n) == SubSeq(seq, 1, Min2(Max2(n, 0), Len(seq)))

\* seq[-n:] of Python for n >= 1: the last n elements, clamped to the length
Suffix(seq, n) == SubSeq(seq, Max2(Len(seq) - n, 0) + 1, Len(seq))

Reverse(seq) == [i \in 1..Len(seq) |-> seq[Len(seq) + 1 - i]]

SeqsUpTo(S, n) == UNION {[1..k -> S] : k \in 0..n}

\* ---------------------------------------------------- select_top_documents
\* A hit of the fused pool: its position in the pool stands for the document
\* and _score is the fused score.
Hit(i, s) == [id |-> i, _score |-> s]

HitsOf(scores) == [i \in 1..Len(scores) |-> Hit(i, scores[i])]

\* insert hit h into a list sorted by non-increasing score, after every element
\* whose score is >= h's: elements with equal scores keep their order
RECURSIVE InsertDesc(_, _)
InsertDesc(h, sorted) ==
    IF sorted = <<>> THEN <<h>>
    ELSE IF Head(sorted)._score >= h._score
         THEN <<Head(sorted)>> \o InsertDesc(h, Tail(sorted))
         ELSE <<h>> \o sorted

\* sorted(documents, key=lambda x: x["_score"], reverse=True): stable
RECURSIVE SortDesc(_)
SortDesc(docs) ==
    IF docs = <<>> THEN <<>>
    ELSE InsertDesc(docs[Len(docs)], SortDesc(SubSeq(docs, 1, Len(docs) - 1)))

\* [scores[i] - scores[i + 1] for i in range(len(scores) - 1)]
ScoreDiffs(docs) ==
    [i \in 1..(Len(docs) - 1) |-> docs[i]._score - docs[i + 1]._score]

MaxOf(seq) == CHOOSE m \in {seq[i] : i \in 1..Len(seq)} :
                  \A i \in 1..Len(seq) : seq[i] <= m

\* list.index(v): the 0-based position of the first occurrence
IndexOf(seq, v) == (CHOOSE i \in 1..Len(seq) :
                       seq[i] = v /\ \A j \in 1..(i - 1) : seq[j] /= v) - 1

\* the cutoff without the floor of four
max_drop_index_nofloor(score_diffs) == IndexOf(score_diffs, MaxOf(score_diffs))

\* max(score_diffs.index(max(score_diffs)), 4)
max_drop_index(score_diffs) ==
    Max2(IndexOf(score_diffs, MaxOf(score_diffs)), 4)

select_top_documents(hits, cap) ==
    LET sorted_docs == SortDesc(hits)
        selected_docs == Prefix(sorted_docs, cap)
        score_diffs == ScoreDiffs(selected_docs)
    IN  IF Len(sorted_docs) <= cap THEN sorted_docs
        ELSE IF score_diffs /= <<>>
             THEN Prefix(sorted_docs, max_drop_index(score_diffs) + 1)
             ELSE selected_docs

DefaultMaxDocs == 5

\* ------------------------------------------------------------------- text
\* A text is a sequence of atoms.  An atom is one character ("<", ">", a hex
\* digit, the plain character "x") or a chunk: a string of several characters
\* that holds no angle bracket and whose hex digits are fenced by non-hex
\* characters inside the chunk ("](", "[Public]", a title "T1", a URL "U1").
HexDigits == {"0", "1", "2", "3", "4", "5", "6", "7", "8", "9",
              "a", "b", "c", "d", "e", "f"}

TokenLen == 8

\* [a-f0-9]{8} at position i of text
HexRunAt(text, i) ==
    /\ i + TokenLen - 1 <= Len(text)
    /\ \A k \in 0..(TokenLen - 1) : text[i + k] \in HexDigits

\* <([a-f0-9]{8})> at position i of text
MarkerAt(text, i) ==
    /\ i + TokenLen + 1 <= Len(text)
    /\ text[i] = "<"
    /\ HexRunAt(text, i + 1)
    /\ text[i + TokenLen + 1] = ">"

Marker(tok) == <<"<">> \o tok \o <<">">>

\* whether sub occurs in text as a contiguous span
Occurs(sub, text) ==
    \E i \in 1..(Len(text) - Len(sub) + 1) :
        SubSeq(text, i, i + Len(sub) - 1) = sub

\* ---------------------------------------------------------- Python dicts
\* A dict keeps its keys in insertion order; assigning to a key it already
\* holds replaces the value and keeps the key's position.
EmptyDict == [keys |-> <<>>, val |-> <<>>]

HasKey(d, k) == \E i \in 1..Len(d.keys) : d.keys[i] = k

DictSet(d, k, v) ==
    [keys |-> IF HasKey(d, k) THEN d.keys ELSE Append(d.keys, k),
     val |-> IF HasKey(d, k)
             THEN [i \in 1..Len(d.keys) |-> IF d.keys[i] = k THEN v ELSE d.val[i]]
             ELSE Append(d.val, v)]

\* d[k] for a key the dict holds
DictGet(d, k) == d.val[CHOOSE i \in 1..Len(d.keys) : d.keys[i] = k]

\* ------------------------------------------------------------ process_text
\* A mapping entry is a record with a field shape: "full" when the dict holds
\* every key the resolver reads, "empty" for {} (falsy in Python), "partial" for
\* a non-empty dict that lacks a key replace_uuid subscripts.  The mappings the
\* handler builds hold "full" entries only.
\* start_time = NoTime stands for the absent key (metadata_info.get returns None).
NoTime == -1

\* the badge of replace_uuid
Badge(is_member) ==
    IF is_member = "true" THEN <<"[Subscriber-only]">> ELSE <<"[Public]">>

\* start_time as the f-string prints it
StrOfTime(t) == ToString(t)

\* Python truthiness of start_time: None and 0 are falsy
TruthyTime(t) == t /= NoTime /\ t /= 0

\* the markdown link replace_uuid returns for a token both mappings hold;
\* the em dash of the source is written "--"
RenderLink(source_data, metadata_info) ==
    LET source_url == source_data.source_url
        doc_type == metadata_info.doc_type
        start_time == metadata_info.start_time
        badge == Badge(metadata_info.member_content_flag)
        title == metadata_info.title
    IN  IF doc_type \in {"video", "podcast"} /\ TruthyTime(start_time)
        THEN <<"[">> \o title \o <<"](">> \o source_url
               \o <<"#t=", StrOfTime(start_time)>>
               \o <<") -- _">> \o badge \o <<"_">>
        ELSE <<"[">> \o title \o <<"](">> \o source_url
               \o <<") -- _">> \o badge \o <<"_">>

\* if source_data and metadata_info: both lookups return a non-empty dict
TokenFound(tok, uuid_mapping, metadata_mapping) ==
    /\ HasKey(uuid_mapping, tok)
    /\ DictGet(uuid_mapping, tok).shape /= "empty"
    /\ HasKey(metadata_mapping, tok)
    /\ DictGet(metadata_mapping, tok).shape /= "empty"

\* replace_uuid raises KeyError: a subscript of a key the dict does not hold
ReplaceRaises(tok, uuid_mapping, metadata_mapping) ==
    /\ TokenFound(tok, uuid_mapping, metadata_mapping)
    /\ \/ ~HasKey(uuid_mapping, tok)
       \/ ~HasKey(metadata_mapping, tok)
       \/ DictGet(uuid_mapping, tok).shape = "partial"
       \/ DictGet(metadata_mapping, tok).shape = "partial"

\* replace_uuid(match): the link when both mappings hold the token, the marker
\* itself otherwise
replace_uuid(tok, uuid_mapping, metadata_mapping) ==
    IF TokenFound(tok, uuid_mapping, metadata_mapping)
    THEN RenderLink(DictGet(uuid_mapping, tok), DictGet(metadata_mapping, tok))
    ELSE Marker(tok)

\* re.sub(uuid_pattern, replace_uuid, text): leftmost non-overlapping matches
RECURSIVE SubMarkers(_, _, _, _)
SubMarkers(text, i, uuid_mapping, metadata_mapping) ==
    IF i > Len(text) THEN <<>>
    ELSE IF MarkerAt(text, i)
         THEN replace_uuid(SubSeq(text, i + 1, i + TokenLen),
                           uuid_mapping, metadata_mapping)
              \o SubMarkers(text, i + TokenLen + 2, uuid_mapping, metadata_mapping)
         ELSE <<text[i]>> \o SubMarkers(text, i + 1, uuid_mapping, metadata_mapping)

\* the pattern <[^<>]*> in its place: a "<" before the first ">" ends the match
FirstGt_inner(text, i) ==
    IF \E j \in i..Len(text) :
           text[j] = ">" /\ \A k \in i..(j - 1) : text[k] \notin {"<", ">"}
    THEN CHOOSE j \in i..Len(text) :
             text[j] = ">" /\ \A k \in i..(j - 1) : text[k] \notin {"<", ">"}
    ELSE 0

\* the position of the first ">" at or after i, 0 when there is none
FirstGt(text, i) ==
    IF \E j \in i..Len(text) : text[j] = ">"
    THEN CHOOSE j \in i..Len(text) :
             text[j] = ">" /\ \A k \in i..(j - 1) : text[k] /= ">"
    ELSE 0

\* re.sub(r"<[^>]*>", "", text) from position i on
RECURSIVE StripBracketsFrom(_, _)
StripBracketsFrom(text, i) ==
    IF i > Len(text) THEN <<>>
    ELSE IF text[i] = "<" /\ FirstGt(text, i + 1) /= 0
         THEN StripBracketsFrom(text, FirstGt(text, i + 1) + 1)
         ELSE <<text[i]>> \o StripBracketsFrom(text, i + 1)

\* the cleanup pass left out
StripBrackets_skip(text) == text

\* text = re.sub(r"<[^>]*>", "", text)
StripBrackets(text) == StripBracketsFrom(text, 1)

\* The outcome of a call: exc is "none" and text the value returned, or exc names
\* the exception raised.
Returned(text) == [exc |-> "none", text |-> text]
Raised(exc) == [exc |-> exc, text |-> <<>>]

\* Two markers never overlap (a second one would need its "<" among the first
\* one's hex digits), so re.sub calls replace_uuid at every position MarkerAt
\* holds.
process_text(text, uuid_mapping, metadata_mapping) ==
    IF \E i \in 1..Len(text) :
           /\ MarkerAt(text, i)
           /\ ReplaceRaises(SubSeq(text, i + 1, i + TokenLen),
                            uuid_mapping, metadata_mapping)
    THEN Raised("KeyError")
    ELSE Returned(StripBrackets(SubMarkers(text, 1, uuid_mapping, metadata_mapping)))

\* -------------------------------------------------------- add_meeting_list
\* re.findall(r"([a-f0-9]{8})", text): the leftmost non-overlapping hex runs
RECURSIVE FindHexRuns(_, _)
FindHexRuns(text, i) ==
    IF i > Len(text) THEN {}
    ELSE IF HexRunAt(text, i)
         THEN {SubSeq(text, i, i + TokenLen - 1)} \cup FindHexRuns(text, i + TokenLen)
         ELSE FindHexRuns(text, i + 1)

\* metadata_mapping.get(uuid_match, {}) followed by the three .get(key, "")
MeetingOf(tok, metadata_mapping) ==
    IF HasKey(metadata_mapping, tok)
    THEN LET metadata == DictGet(metadata_mapping, tok)
         IN  <<metadata.parent_folder_name, metadata.parent_folder_url,
               metadata.member_content_flag>>
    ELSE <<<<>>, <<>>, "">>

\* the (parent_folder_name, parent_folder_url, member_content) triples of the
\* referenced tokens whose folder name and folder url are both non-empty
Meetings(text, metadata_mapping) ==
    {MeetingOf(tok, metadata_mapping) : tok \in
        {t \in FindHexRuns(text, 1) :
            /\ MeetingOf(t, metadata_mapping)[1] /= <<>>
            /\ MeetingOf(t, metadata_mapping)[2] /= <<>>}}

\* The order of Python strings on the atoms the folder names, folder urls and
\* flags are made of.
AtomRank(a) ==
    CASE a = "" -> 0
      [] a = "F1" -> 1
      [] a = "F2" -> 2
      [] a = "G1" -> 3
      [] a = "G2" -> 4
      [] a = "false" -> 5
      [] a = "true" -> 6
      [] OTHER -> 7

\* a folder name or url is one chunk, or empty
TextRank(t) == IF t = <<>> THEN 0 ELSE AtomRank(t[1])

\* tuple comparison of sorted(meetings)
MeetingLess(m, n) ==
    \/ TextRank(m[1]) < TextRank(n[1])
    \/ /\ TextRank(m[1]) = TextRank(n[1])
       /\ \/ TextRank(m[2]) < TextRank(n[2])
          \/ /\ TextRank(m[2]) = TextRank(n[2])
             /\ AtomRank(m[3]) < AtomRank(n[3])

\* the meetings in falling order
RECURSIVE SortedMeetings_reverse(_)
SortedMeetings_reverse(ms) ==
    IF ms = {} THEN <<>>
    ELSE LET most == CHOOSE m \in ms : \A n \in ms \ {m} : MeetingLess(n, m)
         IN  <<most>> \o SortedMeetings_reverse(ms \ {most})

RECURSIVE SortedMeetings(_)
SortedMeetings(ms) ==
    IF ms = {} THEN <<>>
    ELSE LET least == CHOOSE m \in ms : \A n \in ms \ {m} : MeetingLess(m, n)
         IN  <<least>> \o SortedMeetings(ms \ {least})

MeetingBadge(member_content) ==
    IF member_content = "true" THEN <<"*[Subscriber-only]*">> ELSE <<"*[Public]*">>

\* f"- [{folder_name}]({meeting_url}) -- {badge}\n" for each meeting in order
RECURSIVE MeetingLines(_)
MeetingLines(ms) ==
    IF ms = <<>> THEN <<>>
    ELSE <<"- [">> \o Head(ms)[1] \o <<"](">> \o Head(ms)[2] \o <<") -- ">>
           \o MeetingBadge(Head(ms)[3]) \o <<"\n">> \o MeetingLines(Tail(ms))

\* An optional string: none for Python's None.
Some(text) == [none |-> FALSE, text |-> text]
None == [none |-> TRUE, text |-> <<>>]

\* re.findall on None raises TypeError
add_meeting_list(opt, metadata_mapping) ==
    IF opt.none THEN Raised("TypeError")
    ELSE LET meetings == Meetings(opt.text, metadata_mapping)
         IN  IF meetings /= {}
             THEN Returned(opt.text \o <<"\n\n**Meetings referenced:**\n">>
                             \o MeetingLines(SortedMeetings(meetings)))
             ELSE Returned(opt.text)

\* ------------------------------------------------------- the index's hits
\* The documents of the index a request may retrieve.  Document i has passage
\* Pi, doc_id Ti and source-url Ui, so a passage, a title and a url tell which
\* document they come from.
DocType(i) == CASE i = 1 -> "text" [] i = 2 -> "video" [] OTHER -> "podcast"
DocFlag(i) == CASE i = 1 -> "false" [] i = 2 -> "true" [] OTHER -> ""
DocStart(i) == CASE i = 1 -> NoTime [] i = 2 -> 30 [] OTHER -> 0
DocFolderName(i) == CASE i = 2 -> <<"F1">> [] i = 3 -> <<"F2">> [] OTHER -> <<>>
DocFolderUrl(i) == CASE i = 2 -> <<"G1">> [] i = 3 -> <<"G2">> [] OTHER -> <<>>
DocPassage(i) == CASE i = 1 -> <<"P1">> [] i = 2 -> <<"P2">> [] OTHER -> <<"P3">>
DocTitle(i) == CASE i = 1 -> <<"T1">> [] i = 2 -> <<"T2">> [] OTHER -> <<"T3">>
DocUrl(i) == CASE i = 1 -> <<"U1">> [] i = 2 -> <<"U2">> [] OTHER -> <<"U3">>

\* a hit that carries _source; the fields of _source and of its metadata
IndexHit(i, score) ==
    [_id |-> i, _score |-> score, has_source |-> TRUE, passage |-> DocPassage(i), type |-> DocType(i),
     doc_id |-> DocTitle(i), source_url |-> DocUrl(i), member_content |-> DocFlag(i),
     start_time |-> DocStart(i), parent_folder_name |-> DocFolderName(i),
     parent_folder_url |-> DocFolderUrl(i)]

\* a hit whose _source is missing or empty: item.get("_source") is falsy
BareHit(score) ==
    [_id |-> 0, _score |-> score, has_source |-> FALSE, passage |-> <<>>, type |-> "",
     doc_id |-> <<>>, source_url |-> <<>>, member_content |-> "",
     start_time |-> NoTime, parent_folder_name |-> <<>>, parent_folder_url |-> <<>>]

HitOf(i, score) == IF i = 0 THEN BareHit(score) ELSE IndexHit(i, score)

\* the reference tokens generate_short_uuid may return
TokA == [i \in 1..TokenLen |-> "a"]
TokB == [i \in 1..TokenLen |-> "b"]
Tokens == {TokA, TokB}

\* ------------------------------------------------- generate_source_mapping
\* the positions of the hits that carry _source, in order
RECURSIVE SourcedPositions(_, _)
SourcedPositions(documents, i) ==
    IF i > Len(documents) THEN <<>>
    ELSE IF documents[i].has_source
         THEN <<i>> \o SourcedPositions(documents, i + 1)
         ELSE SourcedPositions(documents, i + 1)

NumSourced(documents) == Len(SourcedPositions(documents, 1))

SourceData(hit) ==
    [shape |-> "full",
     source_url |-> hit.source_url,
     doc_type |-> hit.type,
     start_time |-> IF hit.type \in {"video", "podcast"}
                    THEN (IF hit.start_time = NoTime THEN 0 ELSE hit.start_time)
                    ELSE NoTime,
     member_content |-> hit.member_content,
     title |-> hit.doc_id]

\* the loop of generate_source_mapping over the first n sourced hits; minted[k]
\* is what the k-th call of generate_short_uuid returned
RECURSIVE SourceMappingUpTo(_, _, _)
SourceMappingUpTo(documents, minted, n) ==
    IF n = 0 THEN EmptyDict
    ELSE DictSet(SourceMappingUpTo(documents, minted, n - 1),
                 minted[n],
                 SourceData(documents[SourcedPositions(documents, 1)[n]]))

generate_source_mapping(documents, minted) ==
    SourceMappingUpTo(documents, minted, NumSourced(documents))

\* ------------------------------------------------ format_documents_for_llm
\* the entry of the i-th key of source_mapping (i counts from 1 here, from 0 in
\* the source): documents[i] when it exists and carries _source
RECURSIVE FormattedUpTo(_, _, _)
FormattedUpTo(documents, source_mapping, n) ==
    IF n = 0 THEN <<>>
    ELSE LET before == FormattedUpTo(documents, source_mapping, n - 1)
         IN  IF n <= Len(documents) /\ documents[n].has_source
             THEN Append(before, [uuid |-> source_mapping.keys[n],
                                  document_name |-> documents[n].doc_id,
                                  passage |-> documents[n].passage])
             ELSE before

format_documents_for_llm(documents, source_mapping) ==
    FormattedUpTo(documents, source_mapping, Len(source_mapping.keys))

\* --------------------------------------- extract_metadata_for_substitution
MetadataInfo(hit) ==
    [shape |-> "full",
     title |-> hit.doc_id,
     parent_folder_name |-> hit.parent_folder_name,
     parent_folder_url |-> hit.parent_folder_url,
     member_content_flag |-> hit.member_content,
     doc_type |-> hit.type,
     start_time |-> IF hit.type \in {"video", "podcast"}
                    THEN (IF hit.start_time = NoTime THEN 0 ELSE hit.start_time)
                    ELSE NoTime]

\* the loop over documents[0..n-1]: the hit at position i takes the i-th key
RECURSIVE MetadataUpTo(_, _, _)
MetadataUpTo(documents, source_mapping, n) ==
    IF n = 0 THEN EmptyDict
    ELSE LET before == MetadataUpTo(documents, source_mapping, n - 1)
         IN  IF documents[n].has_source /\ n <= Len(source_mapping.keys)
             THEN DictSet(before, source_mapping.keys[n], MetadataInfo(documents[n]))
             ELSE before

extract_metadata_for_substitution(documents, source_mapping) ==
    MetadataUpTo(documents, source_mapping, Len(documents))

\* the citation map with each token's access flag in the place of its url
SimplifiedMapping_flag(source_mapping) ==
    [keys |-> source_mapping.keys,
     val |-> [i \in 1..Len(source_mapping.keys) |->
                 <<source_mapping.val[i].member_content>>]]

\* simplified_mapping[uuid_key] = data["source_url"]
SimplifiedMapping(source_mapping) ==
    [keys |-> source_mapping.keys,
     val |-> [i \in 1..Len(source_mapping.keys) |-> source_mapping.val[i].source_url]]

\* ---------------------------------------------------- conversation table
\* An item of the table.  document_ids is <<>> when the attribute is not set;
\* role, thumb_rating and feedback_text are NoAttr when the item has no such
\* attribute (an item without role has no content either).
NoAttr == "NoAttr"

Item(session_id, timestamp, role, content, document_ids) ==
    [session_id |-> session_id, timestamp |-> timestamp, role |-> role,
     content |-> content, document_ids |-> document_ids,
     thumb_rating |-> NoAttr, feedback_text |-> NoAttr]

\* table.put_item(Item=item): the item replaces the one with the same key
PutItem(table, item) ==
    {i \in table : ~(i.session_id = item.session_id /\ i.timestamp = item.timestamp)}
        \cup {item}

\* the items of a partition, newest first (ScanIndexForward=False)
RECURSIVE NewestFirst(_)
NewestFirst(items) ==
    IF items = {} THEN <<>>
    ELSE LET newest == CHOOSE i \in items : \A j \in items : j.timestamp <= i.timestamp
         IN  <<newest>> \o NewestFirst(items \ {newest})

HistoryLimit == 10
HistoryKeep == 5
PromptTurns == 4

\* the query without its key condition: the newest items of the whole table
QueryItems_all(table, session_id) == Prefix(NewestFirst(table), HistoryLimit)

\* table.query(KeyConditionExpression=..., ScanIndexForward=False, Limit=10)
QueryItems(table, session_id) ==
    Prefix(NewestFirst({i \in table : i.session_id = session_id}), HistoryLimit)

Message(item) == [role |-> item.role, content |-> item.content]

\* messages[-5:]
KeepMessages(messages) == Suffix(messages, HistoryKeep)

get_conversation_history(table, session_id) ==
    LET items == QueryItems(table, session_id)
        messages == [k \in 1..Len(items) |-> Message(items[k])]
    IN  Reverse(KeepMessages(messages))

\* save_message: the table after put_item
save_message(table, session_id, timestamp, role, content, document_ids) ==
    PutItem(table, Item(session_id, timestamp, role, content, document_ids))

\* the item update_item finds under the key, or the one it creates there
ItemAt(table, session_id, timestamp) ==
    IF \E i \in table : i.session_id = session_id /\ i.timestamp = timestamp
    THEN CHOOSE i \in table : i.session_id = session_id /\ i.timestamp = timestamp
    ELSE Item(session_id, timestamp, NoAttr, <<>>, <<>>)

\* feedback saved the way save_message saves: put_item of a new item
save_feedback_put(table, session_id, timestamp, rating, feedback_text) ==
    LET item == Item(session_id, timestamp, NoAttr, <<>>, <<>>)
    IN  IF rating \in {"thumbs_up", "thumbs_down"}
        THEN PutItem(table, [item EXCEPT !.thumb_rating = rating])
        ELSE PutItem(table, [item EXCEPT !.feedback_text = feedback_text])

\* save_feedback: the table after update_item, SET thumb_rating = :rating or
\* SET feedback_text = :text on the item with the key
save_feedback(table, session_id, timestamp, rating, feedback_text) ==
    LET item == ItemAt(table, session_id, timestamp)
    IN  IF rating \in {"thumbs_up", "thumbs_down"}
        THEN PutItem(table, [item EXCEPT !.thumb_rating = rating])
        ELSE PutItem(table, [item EXCEPT !.feedback_text = feedback_text])

\* extract_document_ids: the truthy _id values (the bare hit's _id 0 is falsy)
RECURSIVE extract_document_ids(_)
extract_document_ids(documents) ==
    IF documents = <<>> THEN <<>>
    ELSE IF Head(documents)._id /= 0
         THEN <<Head(documents)._id>> \o extract_document_ids(Tail(documents))
         ELSE extract_document_ids(Tail(documents))

\* build_conversation_context: the text embedded and searched for
RECURSIVE ContextParts(_)
ContextParts(history) ==
    IF history = <<>> THEN <<>>
    ELSE (IF Head(history).role = "user"
          THEN <<"Previous question: ">> ELSE <<"Previous answer: ">>)
         \o Head(history).content \o <<"\n\n">> \o ContextParts(Tail(history))

build_conversation_context(history, current_query) ==
    IF history = <<>> THEN current_query
    ELSE ContextParts(history) \o <<"Current question: ">> \o current_query

\* str.title() on the two roles
TitleCase(role) ==
    CASE role = "user" -> "User" [] role = "assistant" -> "Assistant" [] OTHER -> role

\* history[-4:]
PromptHistory(history) == Suffix(history, PromptTurns)

\* the <conversation_history> block: present tells whether it is in the prompt,
\* lines are its "Role: content" lines in order
HistoryContext(history) ==
    IF history = <<>> THEN [present |-> FALSE, lines |-> <<>>]
    ELSE [present |-> TRUE,
          lines |-> [k \in 1..Len(PromptHistory(history)) |->
                        [role |-> TitleCase(PromptHistory(history)[k].role),
                         content |-> PromptHistory(history)[k].content]]]

\* prompt = history_context + "User: " + user_query + "\n"
\*          + CHAT_PROMPT.format(documents=formatted_docs, citations=str(simplified_mapping)):
\* the parts of the prompt that vary from request to request
Prompt(history_context, user_query, formatted_docs, simplified_mapping) ==
    [history_context |-> history_context, user_query |-> user_query,
     documents |-> formatted_docs, citations |-> simplified_mapping]

\* the prompt lambda_handler builds from the history, the query, the selected
\* documents and the values generate_short_uuid returns
PromptFor(history, user_query, documents, minted) ==
    LET source_mapping == generate_source_mapping(documents, minted)
    IN  Prompt(HistoryContext(history), user_query,
               format_documents_for_llm(documents, source_mapping),
               SimplifiedMapping(source_mapping))

\* the body of the except clause with the exception's text in it
ErrorResponse_cause(exc) == [statusCode |-> 500, body |-> exc]

\* except Exception as e: the fixed 500 response
ErrorResponse(exc) == [statusCode |-> 500, body |-> "Error processing message"]

OkResponse(final_response, session_id, timestamp) ==
    [statusCode |-> 200,
     body |-> [response |-> final_response, session_id |-> session_id,
               timestamp |-> timestamp]]

NoResponse == [statusCode |-> 0, body |-> ""]

\* ---------------------------------------------------------- lambda_handler
\* The instances of lambda_handler that may run at the same time, and the one
\* that runs the invocations of SpecCite and SpecChat one after the other.
Instances == {1, 2}
Requests == {1}

\* the query text of the n-th invocation and the text the model answers it with
QueryText(n) ==
    CASE n = 1 -> <<"Q1">> [] n = 2 -> <<"Q2">> [] n = 3 -> <<"Q3">>
      [] n = 4 -> <<"Q4">> [] n = 5 -> <<"Q5">> [] n = 6 -> <<"Q6">>
      [] OTHER -> <<"Qn">>

AnswerText(n) ==
    CASE n = 1 -> <<"A1">> [] n = 2 -> <<"A2">> [] n = 3 -> <<"A3">>
      [] n = 4 -> <<"A4">> [] n = 5 -> <<"A5">> [] n = 6 -> <<"A6">>
      [] OTHER -> <<"An">>

\* n is the number of the invocation the instance is running (0: none yet)
IdleReq ==
    [pc |-> "idle", n |-> 0, query |-> <<>>, session_id |-> "", history |-> <<>>,
     contextual_query |-> <<>>, selected_docs |-> <<>>, minted |-> <<>>,
     source_mapping |-> EmptyDict, formatted_docs |-> <<>>,
     metadata_mapping |-> EmptyDict, simplified_mapping |-> EmptyDict,
     history_context |-> [present |-> FALSE, lines |-> <<>>],
     model_response |-> None, final_response |-> <<>>, document_ids |-> <<>>,
     user_timestamp |-> 0, assistant_timestamp |-> 0,
     exc |-> "none", raised_at |-> "", response |-> NoResponse, nresp |-> 0]

\* an exception raised inside the try block of instance r, at the named step
Raise(r, exc, step) ==
    req' = [req EXCEPT ![r] = [@ EXCEPT !.pc = "except", !.exc = exc, !.raised_at = step]]

\* json.loads(event["body"]), body_data["query"], body_data.get("session_id", ...)
Invoke(r, sessions, limit) ==
    /\ req[r].pc \in {"idle", "returned"}
    /\ nreq < limit
    /\ nreq' = nreq + 1
    /\ \E s \in sessions :
           req' = [req EXCEPT ![r] = [IdleReq EXCEPT !.pc = "history",
                                         !.n = nreq + 1,
                                         !.query = QueryText(nreq + 1),
                                         !.session_id = s]]
    /\ UNCHANGED <<store, clock, puts, selVars, ptVars, restVars>>

\* the body is not JSON, or holds no "query"
InvokeMalformed(r, limit) ==
    /\ req[r].pc \in {"idle", "returned"}
    /\ nreq < limit
    /\ nreq' = nreq + 1
    /\ \E e \in {"JSONDecodeError", "KeyError"} :
           req' = [req EXCEPT ![r] = [IdleReq EXCEPT !.pc = "except", !.n = nreq + 1,
                                         !.exc = e, !.raised_at = "parse"]]
    /\ UNCHANGED <<store, clock, puts, selVars, ptVars, restVars>>

\* the body holds no "session_id": body_data.get falls back to str(uuid.uuid4()),
\* one of the ids in fresh
InvokeFresh(r, fresh, limit) ==
    /\ req[r].pc \in {"idle", "returned"}
    /\ nreq < limit
    /\ nreq' = nreq + 1
    /\ \E s \in fresh :
           req' = [req EXCEPT ![r] = [IdleReq EXCEPT !.pc = "history",
                                         !.n = nreq + 1,
                                         !.query = QueryText(nreq + 1),
                                         !.session_id = s]]
    /\ UNCHANGED <<store, clock, puts, selVars, ptVars, restVars>>

\* history = get_conversation_history(session_id)
\* contextual_query = build_conversation_context(history, user_query)
GetHistory(r) ==
    /\ req[r].pc = "history"
    /\ \A k \in 1..Len(QueryItems(store, req[r].session_id)) :
           QueryItems(store, req[r].session_id)[k].role /= NoAttr
    /\ LET history == get_conversation_history(store, req[r].session_id)
       IN  req' = [req EXCEPT ![r] = [@ EXCEPT
                      !.pc = "retrieve",
                      !.history = history,
                      !.contextual_query =
                          build_conversation_context(history, req[r].query)]]
    /\ UNCHANGED <<store, clock, nreq, puts, selVars, ptVars, restVars>>

\* item["role"] on an item of the answer that has no role
GetHistoryKeyError(r) ==
    /\ req[r].pc = "history"
    /\ \E k \in 1..Len(QueryItems(store, req[r].session_id)) :
           QueryItems(store, req[r].session_id)[k].role = NoAttr
    /\ Raise(r, "KeyError", "history")
    /\ UNCHANGED <<store, clock, nreq, puts, selVars, ptVars, restVars>>

\* table.query raises
GetHistoryFails(r) ==
    /\ req[r].pc = "history"
    /\ Raise(r, "ClientError", "history")
    /\ UNCHANGED <<store, clock, nreq, puts, selVars, ptVars, restVars>>

\* generate_text_embedding, then get_documents: the fused pool is the index's
\* answer, select_top_documents with the default cap picks from it
Retrieve(r, pools) ==
    /\ req[r].pc = "retrieve"
    /\ \E hits \in pools :
           req' = [req EXCEPT ![r] = [@ EXCEPT
                      !.pc = "tokenize",
                      !.selected_docs = select_top_documents(hits, DefaultMaxDocs)]]
    /\ UNCHANGED <<store, clock, nreq, puts, selVars, ptVars, restVars>>

\* the embedding call or an index query raises
RetrieveFails(r) ==
    /\ req[r].pc = "retrieve"
    /\ \E e \in {"EmbeddingError", "SearchError"} : Raise(r, e, "retrieve")
    /\ UNCHANGED <<store, clock, nreq, puts, selVars, ptVars, restVars>>

\* generate_source_mapping, format_documents_for_llm,
\* extract_metadata_for_substitution, simplified_mapping, history_context
Tokenize(r, tokens) ==
    /\ req[r].pc = "tokenize"
    /\ \E minted \in [1..NumSourced(req[r].selected_docs) -> tokens] :
           LET documents == req[r].selected_docs
               source_mapping == generate_source_mapping(documents, minted)
           IN  req' = [req EXCEPT ![r] = [@ EXCEPT
                          !.pc = "generate",
                          !.minted = minted,
                          !.source_mapping = source_mapping,
                          !.formatted_docs =
                              format_documents_for_llm(documents, source_mapping),
                          !.metadata_mapping =
                              extract_metadata_for_substitution(documents, source_mapping),
                          !.simplified_mapping = SimplifiedMapping(source_mapping),
                          !.history_context = HistoryContext(req[r].history)]]
    /\ UNCHANGED <<store, clock, nreq, puts, selVars, ptVars, restVars>>

\* invoke_model returns the text of the model's answer
Generate(r, texts) ==
    /\ req[r].pc = "generate"
    /\ \E t \in texts :
           req' = [req EXCEPT ![r] = [@ EXCEPT !.pc = "resolve",
                                                !.model_response = Some(t)]]
    /\ UNCHANGED <<store, clock, nreq, puts, selVars, ptVars, restVars>>

\* the user message saved before the generation call, which then fails
GenerateFails_saved(r) ==
    /\ req[r].pc = "generate"
    /\ req' = [req EXCEPT ![r] = [@ EXCEPT !.pc = "resolve", !.model_response = None]]
    /\ store' = save_message(store, req[r].session_id, clock, "user", req[r].query, <<>>)
    /\ puts' = Append(puts, [n |-> req[r].n,
                             item |-> Item(req[r].session_id, clock, "user",
                                           req[r].query, <<>>)])
    /\ UNCHANGED <<clock, nreq, selVars, ptVars, restVars>>

\* bedrock.converse raises: invoke_model logs the error and returns None
GenerateFails(r) ==
    /\ req[r].pc = "generate"
    /\ req' = [req EXCEPT ![r] = [@ EXCEPT !.pc = "resolve", !.model_response = None]]
    /\ UNCHANGED <<store, clock, nreq, puts, selVars, ptVars, restVars>>

\* the text add_meeting_list and then process_text make of model_response
Resolved(model_response, source_mapping, metadata_mapping) ==
    LET meeting_response == add_meeting_list(model_response, metadata_mapping)
    IN  IF meeting_response.exc /= "none" THEN meeting_response
        ELSE process_text(meeting_response.text, source_mapping, metadata_mapping)

\* meeting_response = add_meeting_list(...); final_response = process_text(...);
\* document_ids = extract_document_ids(selected_docs)
Resolve(r) ==
    /\ req[r].pc = "resolve"
    /\ LET out == Resolved(req[r].model_response, req[r].source_mapping,
                           req[r].metadata_mapping)
       IN  IF out.exc /= "none"
           THEN Raise(r, out.exc, "resolve")
           ELSE req' = [req EXCEPT ![r] = [@ EXCEPT
                           !.pc = "save_user",
                           !.final_response = out.text,
                           !.document_ids =
                               extract_document_ids(req[r].selected_docs)]]
    /\ UNCHANGED <<store, clock, nreq, puts, selVars, ptVars, restVars>>

\* save_message(session_id, "user", user_query): the clock is read after it
\* advanced by one of the steps in ticks
SaveUser(r, ticks) ==
    /\ req[r].pc = "save_user"
    /\ \E d \in ticks :
           /\ clock' = clock + d
           /\ store' = save_message(store, req[r].session_id, clock + d, "user",
                                    req[r].query, <<>>)
           /\ puts' = Append(puts, [n |-> req[r].n,
                                    item |-> Item(req[r].session_id, clock + d, "user",
                                                  req[r].query, <<>>)])
           /\ req' = [req EXCEPT ![r] = [@ EXCEPT !.pc = "save_assistant",
                                                    !.user_timestamp = clock + d]]
    /\ UNCHANGED <<nreq, selVars, ptVars, restVars>>

\* put_item raises
SaveUserFails(r) ==
    /\ req[r].pc = "save_user"
    /\ Raise(r, "ClientError", "save_user")
    /\ UNCHANGED <<store, clock, nreq, puts, selVars, ptVars, restVars>>

\* assistant_timestamp = save_message(session_id, "assistant", final_response,
\* document_ids)
SaveAssistant(r, ticks) ==
    /\ req[r].pc = "save_assistant"
    /\ \E d \in ticks :
           /\ clock' = clock + d
           /\ store' = save_message(store, req[r].session_id, clock + d, "assistant",
                                    req[r].final_response, req[r].document_ids)
           /\ puts' = Append(puts, [n |-> req[r].n,
                                    item |-> Item(req[r].session_id, clock + d, "assistant",
                                                  req[r].final_response,
                                                  req[r].document_ids)])
           /\ req' = [req EXCEPT ![r] = [@ EXCEPT !.pc = "return",
                                                    !.assistant_timestamp = clock + d]]
    /\ UNCHANGED <<nreq, selVars, ptVars, restVars>>

SaveAssistantFails(r) ==
    /\ req[r].pc = "save_assistant"
    /\ Raise(r, "ClientError", "save_assistant")
    /\ UNCHANGED <<store, clock, nreq, puts, selVars, ptVars, restVars>>

\* return {"statusCode": 200, ...}
Return(r) ==
    /\ req[r].pc = "return"
    /\ req' = [req EXCEPT ![r] = [@ EXCEPT
                  !.pc = "returned",
                  !.response = OkResponse(req[r].final_response, req[r].session_id,
                                          req[r].assistant_timestamp),
                  !.nresp = @ + 1]]
    /\ UNCHANGED <<store, clock, nreq, puts, selVars, ptVars, restVars>>

\* except Exception as e: return the 500 response
Except(r) ==
    /\ req[r].pc = "except"
    /\ req' = [req EXCEPT ![r] = [@ EXCEPT !.pc = "returned",
                                           !.response = ErrorResponse(req[r].exc),
                                           !.nresp = @ + 1]]
    /\ UNCHANGED <<store, clock, nreq, puts, selVars, ptVars, restVars>>

\* ------------------------------------------------------------ hybrid_search
\* A hit of one of the two raw lists: the document's _id and the signal's score.
RawHit(i, s) == [_id |-> i, _score |-> s]

IdsOf(hits) == {hits[k]._id : k \in 1..Len(hits)}

ScoreOf(hits, i) == (CHOOSE k \in 1..Len(hits) : hits[k]._id = i)

\* min-max normalization of the score s of a list, as the fraction num / den;
\* flat is what the normalizer gives every hit of a list whose scores are all
\* the same
MinMax(hits, s, flat) ==
    LET scores == [k \in 1..Len(hits) |-> hits[k]._score]
        hi == MaxOf(scores)
        lo == -MaxOf([k \in 1..Len(hits) |-> -scores[k]])
    IN  IF hi = lo THEN [num |-> flat, den |-> 1]
        ELSE [num |-> s - lo, den |-> hi - lo]

\* the normalized score of document i in a list, 0 when the list lacks it
NormOf(hits, i, flat) ==
    IF i \in IdsOf(hits)
    THEN MinMax(hits, hits[ScoreOf(hits, i)]._score, flat)
    ELSE [num |-> 0, den |-> 1]

\* the documents of the two lists in their original order, each once: the
\* lexical hits, then the semantic hits the lexical list lacks
RECURSIVE Lacking(_, _)
Lacking(hits, ids) ==
    IF hits = <<>> THEN <<>>
    ELSE IF Head(hits)._id \in ids THEN Lacking(Tail(hits), ids)
         ELSE <<Head(hits)._id>> \o Lacking(Tail(hits), ids)

Candidates(lexical, semantic) ==
    [k \in 1..Len(lexical) |-> lexical[k]._id] \o Lacking(semantic, IdsOf(lexical))

\* the two lists one after the other, a document of both lists twice
Candidates_concat(lexical, semantic) ==
    [k \in 1..Len(lexical) |-> lexical[k]._id]
        \o [k \in 1..Len(semantic) |-> semantic[k]._id]

\* w * semantic_norm + (1 - w) * lexical_norm with w = 0.5, times twice the two
\* denominators: an integer that orders the documents as the fused score does
FusedScore(lexical, semantic, i, flat) ==
    LET l == NormOf(lexical, i, flat)
        m == NormOf(semantic, i, flat)
    IN  l.num * m.den + m.num * l.den

\* the fusion without the deduplication
hybrid_search_concat(size, lexical, semantic, flat) ==
    LET ids == Candidates_concat(lexical, semantic)
        fused == [k \in 1..Len(ids) |->
                     RawHit(ids[k], FusedScore(lexical, semantic, ids[k], flat))]
    IN  Prefix(SortDesc(fused), size)

\* hybrid_search(size, lexical_results, semantic_results, interpolation_weight=0.5,
\* normalizer="minmax", use_rrf=False): the size best candidates by fused score,
\* equal scores in their original order
hybrid_search(size, lexical, semantic, flat) ==
    LET ids == Candidates(lexical, semantic)
        fused == [k \in 1..Len(ids) |->
                     RawHit(ids[k], FusedScore(lexical, semantic, ids[k], flat))]
    IN  Prefix(SortDesc(fused), size)

\* the pool size get_documents asks hybrid_search for
PoolSize == 20

\* ------------------------------------------------------------ create_chunks
\* A text to chunk is a sequence of the characters "a" and " ".  Positions are
\* Python's: text[i] is the element i + 1 of the sequence.
\* text.rfind(" ", start, end): the last i in start..end-1 with a space, or -1
RFind(text, start, end) ==
    IF \E i \in start..(end - 1) : text[i + 1] = " "
    THEN CHOOSE i \in start..(end - 1) :
             text[i + 1] = " " /\ \A j \in (i + 1)..(end - 1) : text[j + 1] /= " "
    ELSE -1

\* str.strip() on a text of "a" and " "
RECURSIVE LStrip(_)
LStrip(t) == IF t /= <<>> /\ Head(t) = " " THEN LStrip(Tail(t)) ELSE t

Strip(t) == Reverse(LStrip(Reverse(LStrip(t))))

\* end = min(start + chunk_size, len(text)), moved back to the last space of
\* the window when there is one after start
ChunkEnd(text, chunk_size, start) ==
    LET end == Min2(start + chunk_size, Len(text))
        space_pos == RFind(text, start, end)
    IN  IF end < Len(text) /\ space_pos > start THEN space_pos ELSE end

\* start = end - overlap_chars, not below 0, one further when it is on a space
NextStart(text, end, overlap_chars) ==
    LET back == Max2(end - overlap_chars, 0)
    IN  IF back < Len(text) /\ text[back + 1] = " " THEN back + 1 ELSE back

\* --------------------------------------------------------- feedback_handler
\* no feedback request served yet
NoFeedback ==
    [n |-> 0, session_id |-> "", timestamp |-> 0, rating |-> "", feedback_text |-> "",
     statusCode |-> 0]

\* feedback_handler on a body with session_id, timestamp and rating (and
\* feedback_text, "" when the body has none): save_feedback, then the 200 response
Feedback(sessions, stamps, ratings, texts, limit) ==
    /\ fb.n < limit
    /\ \E s \in sessions, t \in stamps, rating \in ratings, text \in texts :
           /\ store' = save_feedback(store, s, t, rating, text)
           /\ fb' = [n |-> fb.n + 1, session_id |-> s, timestamp |-> t,
                     rating |-> rating, feedback_text |-> text, statusCode |-> 200]
    /\ UNCHANGED <<clock, nreq, puts, req, selVars, ptVars, fuseVars, chunkVars,
                   ingestVars>>

\* the body is not JSON or lacks one of the three keys, or update_item raises
\* (a key of the wrong type, the table unreachable): the 500 response
FeedbackFails(limit) ==
    /\ fb.n < limit
    /\ fb' = [NoFeedback EXCEPT !.n = fb.n + 1, !.statusCode = 500]
    /\ UNCHANGED <<store, clock, nreq, puts, req, selVars, ptVars, fuseVars,
                   chunkVars, ingestVars>>

\* -------------------------------------------------------------------- ingest
\* The objects list_objects_v2 finds in the bucket: the folder of the key, the
\* extension, and the s3_uri the routing lambda makes of bucket and key.
Objects ==
    {[s3_uri |-> "s3://B/a/1.pdf", folder |-> "a/", ext |-> "pdf"],
     [s3_uri |-> "s3://B/b/2.txt", folder |-> "b/", ext |-> "txt"],
     [s3_uri |-> "s3://B/a/3.doc", folder |-> "a/", ext |-> "doc"],
     [s3_uri |-> "s3://B/cache_file.txt", folder |-> "", ext |-> "txt"]}

Uris == {o.s3_uri : o \in Objects}

\* lambda_mappings.get(file_extension)
lambda_mappings(ext) ==
    CASE ext \in {"mp4", "webm"} -> "process-video"
      [] ext = "pdf" -> "process-pdf"
      [] ext \in {"mp3", "wav", "flac", "m4a"} -> "process-audio"
      [] ext \in {"txt", "vtt"} -> "process-text"
      [] OTHER -> "None"

\* the s3_uri of the entries of results: the listed objects under the prefix
\* that are not cache_file.txt, not cached, and of a supported extension
RoutingResults(prefix, cached_uris) ==
    {o.s3_uri : o \in
        {x \in Objects :
            /\ prefix = "" \/ x.folder = prefix
            /\ x.s3_uri /= "s3://B/cache_file.txt"
            /\ x.s3_uri \notin cached_uris
            /\ lambda_mappings(x.ext) /= "None"}}

\* cache_file.txt before the first put_object, and with the given lines
NoSuchKey == [exists |-> FALSE, lines |-> {}]
CacheOf(uris) == [exists |-> TRUE, lines |-> uris]

\* the lines of the cache file as get_object reads them
CacheLines == cache_file.lines

Workers == {1, 2}
OneWorker == {1}

\* added: the URIs the worker's put_object calls wrote into the cache file since
\* the last reset
IdleWorker ==
    [kind |-> "none", pc |-> "idle", n |-> 0, prefix |-> "", s3_uri |-> "",
     cached_uris |-> {}, new_cache_entries |-> {}, existing_cache |-> {},
     added |-> {}]

\* the invocation worker p begins
Begin(p, kind, pc) ==
    [IdleWorker EXCEPT !.kind = kind, !.pc = pc, !.n = worker[p].n + 1,
                       !.added = worker[p].added]

Free(p, limit) == worker[p].pc \in {"idle", "done"} /\ worker[p].n < limit

\* routing lambda_handler up to update_cache_file: get_cache_contents (an S3
\* error other than NoSuchKey is swallowed and reads as the empty set), then
\* list_objects_v2 and the loop over its Contents
RouteRead(p, prefixes, outcomes, limit) ==
    /\ Free(p, limit)
    /\ \E prefix \in prefixes, outcome \in outcomes :
           LET cached_uris == IF outcome = "ok" THEN CacheLines ELSE {}
               results == RoutingResults(prefix, cached_uris)
           IN  worker' = [worker EXCEPT ![p] =
                   [Begin(p, "route", "listed") EXCEPT
                       !.prefix = prefix,
                       !.cached_uris = cached_uris,
                       !.new_cache_entries = results,
                       !.pc = IF outcome = "ok" /\ cache_file = NoSuchKey
                              THEN "create"
                              ELSE IF results = {} THEN "return" ELSE "reread"]]
    /\ UNCHANGED <<cache_file, processed_files, indexed, returned, selVars, ptVars,
                   chatVars, fb, fuseVars, chunkVars>>

\* get_cache_contents on NoSuchKey: put_object of the empty cache file
CreateCacheFile(p) ==
    /\ worker[p].pc \in {"create", "recreate"}
    /\ cache_file' = CacheOf({})
    /\ worker' = [worker EXCEPT ![p].pc =
                      IF worker[p].pc = "recreate" THEN "write"
                      ELSE IF worker[p].new_cache_entries = {} THEN "return"
                      ELSE "reread"]
    /\ UNCHANGED <<processed_files, indexed, returned, selVars, ptVars, chatVars,
                   fb, fuseVars, chunkVars>>

\* update_cache_file: existing_cache = get_cache_contents(s3_client, bucket)
RouteReread(p, outcomes) ==
    /\ worker[p].pc = "reread"
    /\ \E outcome \in outcomes :
           worker' = [worker EXCEPT ![p] = [@ EXCEPT
               !.existing_cache = IF outcome = "ok" THEN CacheLines ELSE {},
               !.pc = IF outcome = "ok" /\ cache_file = NoSuchKey
                      THEN "recreate" ELSE "write"]]
    /\ UNCHANGED <<cache_file, processed_files, indexed, returned, selVars, ptVars,
                   chatVars, fb, fuseVars, chunkVars>>

\* update_cache_file: put_object of existing_cache.union(set(new_uris)); an
\* error of the put is swallowed
RouteWrite(p, outcomes) ==
    /\ worker[p].pc = "write"
    /\ \E outcome \in outcomes :
           IF outcome = "ok"
           THEN /\ cache_file' = CacheOf(worker[p].existing_cache
                                             \cup worker[p].new_cache_entries)
                /\ worker' = [worker EXCEPT ![p] = [@ EXCEPT
                       !.pc = "return",
                       !.added = @ \cup worker[p].new_cache_entries]]
           ELSE /\ cache_file' = cache_file
                /\ worker' = [worker EXCEPT ![p].pc = "return"]
    /\ UNCHANGED <<processed_files, indexed, returned, selVars, ptVars, chatVars,
                   fb, fuseVars, chunkVars>>

\* return results
RouteReturn(p) ==
    /\ worker[p].pc = "return"
    /\ returned' = [u \in Uris |->
                       IF u \in worker[p].new_cache_entries
                       THEN returned[u] + 1 ELSE returned[u]]
    /\ worker' = [worker EXCEPT ![p].pc = "done"]
    /\ UNCHANGED <<cache_file, processed_files, indexed, selVars, ptVars, chatVars,
                   fb, fuseVars, chunkVars>>

\* the {"cache": "reset"} event: reset_cache_file puts the empty file, or
\* reports the error of the put
ResetCacheFile(p, outcomes, limit) ==
    /\ Free(p, limit)
    /\ \E outcome \in outcomes :
           IF outcome = "ok"
           THEN /\ cache_file' = CacheOf({})
                /\ returned' = [u \in Uris |-> 0]
                /\ worker' = [q \in Workers |->
                                  IF q = p
                                  THEN [Begin(p, "reset", "done") EXCEPT !.added = {}]
                                  ELSE [worker[q] EXCEPT !.added = {}]]
           ELSE /\ UNCHANGED <<cache_file, returned>>
                /\ worker' = [worker EXCEPT ![p] = Begin(p, "reset", "done")]
    /\ UNCHANGED <<processed_files, indexed, selVars, ptVars, chatVars, fb,
                   fuseVars, chunkVars>>

\* process_pdf: insert_document succeeds or not; a failure ends the invocation
\* with the 500 response.  The URI is one the routing lambda returned for
\* process-pdf.
ProcessPdf(p, outcomes, limit) ==
    /\ Free(p, limit)
    /\ \E o \in Objects, success \in outcomes :
           /\ lambda_mappings(o.ext) = "process-pdf"
           /\ returned[o.s3_uri] > 0
           /\ indexed' = IF success = "ok"
                         THEN [indexed EXCEPT ![o.s3_uri] = @ + 1] ELSE indexed
           /\ worker' = [worker EXCEPT ![p] =
                  [Begin(p, "pdf", IF success = "ok" THEN "pdf_read" ELSE "done")
                      EXCEPT !.s3_uri = o.s3_uri]]
    /\ UNCHANGED <<cache_file, processed_files, returned, selVars, ptVars, chatVars,
                   fb, fuseVars, chunkVars>>

\* update_cache_file of the PDF processor: get_object, any error reading as the
\* empty set; a URI already in the cache ends the update
PdfReadCache(p) ==
    /\ worker[p].pc = "pdf_read"
    /\ worker' = [worker EXCEPT ![p] = [@ EXCEPT
           !.existing_cache = CacheLines,
           !.pc = IF worker[p].s3_uri \in CacheLines THEN "done" ELSE "pdf_write"]]
    /\ UNCHANGED <<cache_file, processed_files, indexed, returned, selVars, ptVars,
                   chatVars, fb, fuseVars, chunkVars>>

\* existing_cache.add(s3_uri), then put_object of the sorted lines
PdfWriteCache(p) ==
    /\ worker[p].pc = "pdf_write"
    /\ cache_file' = CacheOf(worker[p].existing_cache \cup {worker[p].s3_uri})
    /\ worker' = [worker EXCEPT ![p] = [@ EXCEPT
           !.pc = "done", !.added = @ \cup {worker[p].s3_uri}]]
    /\ UNCHANGED <<processed_files, indexed, returned, selVars, ptVars, chatVars,
                   fb, fuseVars, chunkVars>>

\* text lambda_handler up to create_chunks: is_file_processed(s3_uri), where an
\* error of get_item is swallowed and reads as not processed
IsFileProcessed(p, uris, outcomes, limit) ==
    /\ Free(p, limit)
    /\ \E u \in uris, outcome \in outcomes :
           LET processed == outcome = "ok" /\ u \in processed_files
           IN  worker' = [worker EXCEPT ![p] =
                  [Begin(p, "text", IF processed THEN "done" ELSE "bulk")
                      EXCEPT !.s3_uri = u]]
    /\ UNCHANGED <<cache_file, processed_files, indexed, returned, selVars, ptVars,
                   chatVars, fb, fuseVars, chunkVars>>

\* success = bulk_add_to_opensearch(documents); not success, or an exception on
\* the way to it, ends the invocation with the 500 response
BulkAdd(p, outcomes) ==
    /\ worker[p].pc = "bulk"
    /\ \E success \in outcomes :
           /\ indexed' = IF success = "ok"
                         THEN [indexed EXCEPT ![worker[p].s3_uri] = @ + 1] ELSE indexed
           /\ worker' = [worker EXCEPT ![p].pc =
                             IF success = "ok" THEN "mark" ELSE "done"]
    /\ UNCHANGED <<cache_file, processed_files, returned, selVars, ptVars, chatVars,
                   fb, fuseVars, chunkVars>>

\* mark_file_processed(s3_uri): put_item, whose error is swallowed
MarkFileProcessed(p, outcomes) ==
    /\ worker[p].pc = "mark"
    /\ \E outcome \in outcomes :
           processed_files' = IF outcome = "ok"
                              THEN processed_files \cup {worker[p].s3_uri}
                              ELSE processed_files
    /\ worker' = [worker EXCEPT ![p].pc = "done"]
    /\ UNCHANGED <<cache_file, indexed, returned, selVars, ptVars, chatVars, fb,
                   fuseVars, chunkVars>>

\* ------------------------------------------------------------ input sets
\* the texts made of at most n of the given pieces
RECURSIVE TextsOf(_, _)
TextsOf(pieces, n) ==
    IF n = 0 THEN {<<>>}
    ELSE TextsOf(pieces, n - 1)
           \cup {t \o q : t \in TextsOf(pieces, n - 1), q \in pieces}

\* what a model's answer is made of: stray angle brackets, plain text, markers
Pieces == {<<"<">>, <<">">>, <<"x">>} \cup {Marker(t) : t \in Tokens}

Texts == TextsOf(Pieces, MaxPieces)

\* the same with a lone hex digit, which makes a marker too short or too long
ResolveTexts == TextsOf(Pieces \cup {<<"a">>}, MaxPieces)

\* the index's answer holding the documents ids[1], ids[2], ... (0: a hit without
\* _source) with falling scores
PoolOf(ids) == [k \in 1..Len(ids) |-> HitOf(ids[k], Len(ids) - k)]

CitePools ==
    {PoolOf(ids) : ids \in
        {q \in SeqsUpTo(0..2, MaxSel) :
            \A i, j \in 1..Len(q) : (i /= j /\ q[i] /= 0) => q[i] /= q[j]}}

ChatPools == {PoolOf(<<>>), PoolOf(<<1>>)}

\* the entries a mapping given to process_text may hold for a token
FullSource(i) == SourceData(IndexHit(i, 0))
FullMetadata(i) == MetadataInfo(IndexHit(i, 0))
Shaped(entry, shape) == [entry EXCEPT !.shape = shape]

\* the dict with the entries e[1] for TokA and e[2] for TokB, "absent" leaving
\* the token out
DictOf(a, b) ==
    LET withA == IF a.shape = "absent" THEN EmptyDict ELSE DictSet(EmptyDict, TokA, a)
    IN  IF b.shape = "absent" THEN withA ELSE DictSet(withA, TokB, b)

UuidMappings ==
    {DictOf(a, b) :
        a \in {Shaped(FullSource(1), sh) : sh \in {"absent", "full", "empty", "partial"}},
        b \in {Shaped(FullSource(2), sh) : sh \in {"absent", "full"}}}

MetadataMappings ==
    {DictOf(a, b) :
        a \in {Shaped(FullMetadata(1), sh) : sh \in {"absent", "full", "partial"}}
               \cup {FullMetadata(2)},
        b \in {Shaped(FullMetadata(2), sh) : sh \in {"absent", "full"}}}

\* what a model's answer is made of when it also writes tokens without brackets
\* and hex digits next to them
AnswerTexts == TextsOf(Pieces \cup Tokens \cup {<<"a">>}, MaxPieces)

\* the mappings of a request with up to two tokens: each token absent or with the
\* full entry of a document
AnswerUuidMappings ==
    {DictOf(a, b) :
        a \in {Shaped(FullSource(1), sh) : sh \in {"absent", "full"}},
        b \in {FullSource(2)}}

AnswerMetadataMappings ==
    {DictOf(a, b) :
        a \in {Shaped(FullMetadata(1), "absent"), FullMetadata(1), FullMetadata(2),
               FullMetadata(3)},
        b \in {Shaped(FullMetadata(2), sh) : sh \in {"absent", "full"}}}

\* -------------------------------------------------------------- idle parts
SelectIdle == pool = <<>> /\ max_docs = DefaultMaxDocs /\ selected = <<>> /\ sel_pc = "idle"

ResolveIdle ==
    /\ pt_text = <<>> /\ pt_uuid = EmptyDict /\ pt_meta = EmptyDict
    /\ pt_out = Returned(<<>>) /\ pt_pc = "idle"

ChatStart ==
    /\ store = {} /\ clock = 1 /\ nreq = 0 /\ puts = <<>>
    /\ req = [r \in Instances |-> IdleReq]
    /\ fb = NoFeedback

FuseIdle == lexical_results = <<>> /\ semantic_results = <<>>

IngestIdle ==
    /\ cache_file = NoSuchKey /\ processed_files = {}
    /\ indexed = [u \in Uris |-> 0] /\ returned = [u \in Uris |-> 0]
    /\ worker = [p \in Workers |-> IdleWorker]

ChunkIdle ==
    /\ ck_text = <<>> /\ ck_size = 1 /\ ck_overlap = 0 /\ ck_start = 0
    /\ ck_chunks = <<>> /\ ck_pc = "idle"

\* the retrieval fusion, the chunker and the ingest pipeline at rest
OthersIdle == FuseIdle /\ ChunkIdle /\ IngestIdle

\* ---------------------------------------------------------------- SpecSelect
InitSelect ==
    /\ pool \in {HitsOf(s) : s \in SeqsUpTo(Scores, MaxPool)}
    /\ max_docs \in 1..MaxCap
    /\ selected = <<>>
    /\ sel_pc = "call"
    /\ ResolveIdle
    /\ ChatStart
    /\ OthersIdle

SelectTopDocuments ==
    /\ sel_pc = "call"
    /\ selected' = select_top_documents(pool, max_docs)
    /\ sel_pc' = "done"
    /\ UNCHANGED <<pool, max_docs, ptVars, chatVars, restVars>>

NextSelect == SelectTopDocuments

SpecSelect == InitSelect /\ [][NextSelect]_vars

\* --------------------------------------------------------------- SpecResolve
InitResolve ==
    /\ pt_text \in ResolveTexts
    /\ pt_uuid \in UuidMappings
    /\ pt_meta \in MetadataMappings
    /\ pt_out = Returned(<<>>)
    /\ pt_pc = "call"
    /\ SelectIdle
    /\ ChatStart
    /\ OthersIdle

ProcessText ==
    /\ pt_pc = "call"
    /\ pt_out' = process_text(pt_text, pt_uuid, pt_meta)
    /\ pt_pc' = "done"
    /\ UNCHANGED <<pt_text, pt_uuid, pt_meta, selVars, chatVars, restVars>>

NextResolve == ProcessText

SpecResolve == InitResolve /\ [][NextResolve]_vars

\* ---------------------------------------------------------------- SpecMarkup
\* process_text on mappings whose entry for TokA has a title or a URL holding
\* angle brackets, and then on its own output with the same mappings.
MarkupTitles == {DocTitle(1), <<"<">> \o DocTitle(1), DocTitle(1) \o <<">">>,
                 <<">">> \o DocTitle(1) \o <<"<">>}
MarkupUrls == {DocUrl(1), <<"<">> \o DocUrl(1), DocUrl(1) \o <<">">>}

MarkupUuidMappings ==
    {DictOf(a, b) :
        a \in {[FullSource(1) EXCEPT !.source_url = u] : u \in MarkupUrls}
               \cup {Shaped(FullSource(1), "absent")},
        b \in {Shaped(FullSource(2), sh) : sh \in {"absent", "full"}}}

MarkupMetadataMappings ==
    {DictOf(a, b) :
        a \in {[FullMetadata(1) EXCEPT !.title = t] : t \in MarkupTitles}
               \cup {Shaped(FullMetadata(1), "absent")},
        b \in {Shaped(FullMetadata(2), sh) : sh \in {"absent", "full"}}}

InitMarkup ==
    /\ pt_text \in Texts
    /\ pt_uuid \in MarkupUuidMappings
    /\ pt_meta \in MarkupMetadataMappings
    /\ pt_out = Returned(<<>>)
    /\ pt_pc = "call"
    /\ SelectIdle
    /\ ChatStart
    /\ OthersIdle

\* process_text called on the text it returned
ProcessTextTwice ==
    /\ pt_pc = "done"
    /\ pt_out.exc = "none"
    /\ pt_text' = pt_out.text
    /\ pt_out' = process_text(pt_out.text, pt_uuid, pt_meta)
    /\ pt_pc' = "twice"
    /\ UNCHANGED <<pt_uuid, pt_meta, selVars, chatVars, restVars>>

NextMarkup == ProcessText \/ ProcessTextTwice

SpecMarkup == InitMarkup /\ [][NextMarkup]_vars

\* ---------------------------------------------------------------- SpecAnswer
\* The resolver of lambda_handler applied to a raw answer of the model:
\* add_meeting_list, then process_text on its result, then both once more on the
\* resolved text.
InitAnswer ==
    /\ pt_text \in AnswerTexts
    /\ pt_uuid \in AnswerUuidMappings
    /\ pt_meta \in AnswerMetadataMappings
    /\ pt_out = Returned(<<>>)
    /\ pt_pc = "raw"
    /\ SelectIdle
    /\ ChatStart
    /\ OthersIdle

\* meeting_response = add_meeting_list(model_response, metadata_mapping)
AddMeetingList ==
    /\ pt_pc = "raw"
    /\ pt_out' = add_meeting_list(Some(pt_text), pt_meta)
    /\ pt_pc' = "listed"
    /\ UNCHANGED <<pt_text, pt_uuid, pt_meta, selVars, chatVars, restVars>>

\* final_response = process_text(meeting_response, source_mapping, metadata_mapping)
ResolveListed ==
    /\ pt_pc = "listed"
    /\ pt_out.exc = "none"
    /\ pt_out' = process_text(pt_out.text, pt_uuid, pt_meta)
    /\ pt_pc' = "resolved"
    /\ UNCHANGED <<pt_text, pt_uuid, pt_meta, selVars, chatVars, restVars>>

\* the resolver applied to the text it returned
ResolveAgain ==
    /\ pt_pc = "resolved"
    /\ pt_out.exc = "none"
    /\ pt_text' = pt_out.text
    /\ pt_out' = Resolved(Some(pt_out.text), pt_uuid, pt_meta)
    /\ pt_pc' = "again"
    /\ UNCHANGED <<pt_uuid, pt_meta, selVars, chatVars, restVars>>

NextAnswer == AddMeetingList \/ ResolveListed \/ ResolveAgain

SpecAnswer == InitAnswer /\ [][NextAnswer]_vars

\* ------------------------------------------------------------------ SpecCite
\* One invocation of lambda_handler in which no call fails: any answer of the
\* index, any minted tokens, any text of the model.
InitChat == SelectIdle /\ ResolveIdle /\ ChatStart /\ OthersIdle

NextCite ==
    \E r \in Requests :
        \/ Invoke(r, {"s1"}, 1)
        \/ GetHistory(r)
        \/ Retrieve(r, CitePools)
        \/ Tokenize(r, Tokens)
        \/ Generate(r, Texts)
        \/ Resolve(r)
        \/ SaveUser(r, {1})
        \/ SaveAssistant(r, {1})
        \/ Return(r)

SpecCite == InitChat /\ [][NextCite]_vars

\* ------------------------------------------------------------------ SpecChat
\* Invocations of lambda_handler one after the other on one session, each call
\* of each of them failing or not.
NextChat ==
    \E r \in Requests :
        \/ Invoke(r, {"s1"}, MaxInvocations)
        \/ InvokeMalformed(r, MaxInvocations)
        \/ GetHistory(r)
        \/ GetHistoryFails(r)
        \/ Retrieve(r, ChatPools)
        \/ RetrieveFails(r)
        \/ Tokenize(r, {TokA})
        \/ Generate(r, {AnswerText(nreq)})
        \/ GenerateFails(r)
        \/ Resolve(r)
        \/ SaveUser(r, {0, 1})
        \/ SaveUserFails(r)
        \/ SaveAssistant(r, {0, 1})
        \/ SaveAssistantFails(r)
        \/ Return(r)
        \/ Except(r)

SpecChat == InitChat /\ [][NextChat]_vars

\* ------------------------------------------------------------------ SpecConc
\* Two instances of lambda_handler running at the same time against the one
\* conversation table, on the sessions the clients name or on a generated one;
\* no call fails.  Each save_message reads the clock in the millisecond of the
\* previous read or in the next one.
ClientSessions == {"s1"}
FreshSessions == {"u1"}

NextConc ==
    \E r \in Instances :
        \/ Invoke(r, ClientSessions, MaxConcurrent)
        \/ InvokeFresh(r, FreshSessions, MaxConcurrent)
        \/ GetHistory(r)
        \/ Retrieve(r, {PoolOf(<<>>)})
        \/ Tokenize(r, {TokA})
        \/ Generate(r, {AnswerText(req[r].n)})
        \/ Resolve(r)
        \/ SaveUser(r, {0, 1})
        \/ SaveAssistant(r, {0, 1})
        \/ Return(r)

SpecConc == InitChat /\ [][NextConc]_vars

\* -------------------------------------------------------------- SpecSessions
\* Invocations of lambda_handler one after the other, each on the session the
\* client names or on a generated one; no call fails.
NextSessions ==
    \E r \in Requests :
        \/ Invoke(r, ClientSessions, MaxInvocations)
        \/ InvokeFresh(r, FreshSessions, MaxInvocations)
        \/ GetHistory(r)
        \/ Retrieve(r, {PoolOf(<<1>>)})
        \/ Tokenize(r, {TokA})
        \/ Generate(r, {AnswerText(req[r].n)})
        \/ Resolve(r)
        \/ SaveUser(r, {0, 1})
        \/ SaveAssistant(r, {0, 1})
        \/ Return(r)

SpecSessions == InitChat /\ [][NextSessions]_vars

\* ------------------------------------------------------------------ SpecFuse
\* get_documents: the two raw hit lists of the index, fused by hybrid_search
\* into the pool, from which select_top_documents picks.
DocIds == 1..3

RawLists ==
    {q \in SeqsUpTo({RawHit(i, s) : i \in DocIds, s \in Scores}, MaxHits) :
        \A i, j \in 1..Len(q) : i /= j => q[i]._id /= q[j]._id}

InitFuse ==
    /\ lexical_results \in RawLists
    /\ semantic_results \in RawLists
    /\ pool = <<>> /\ max_docs = DefaultMaxDocs /\ selected = <<>> /\ sel_pc = "call"
    /\ ResolveIdle /\ ChatStart /\ ChunkIdle /\ IngestIdle

GetDocuments ==
    /\ sel_pc = "call"
    /\ \E flat \in {0, 1} :
           LET hybrid_results == hybrid_search(PoolSize, lexical_results,
                                               semantic_results, flat)
           IN  /\ pool' = hybrid_results
               /\ selected' = select_top_documents(hybrid_results, DefaultMaxDocs)
    /\ sel_pc' = "done"
    /\ UNCHANGED <<max_docs, ptVars, chatVars, fb, fuseVars, chunkVars, ingestVars>>

NextFuse == GetDocuments

SpecFuse == InitFuse /\ [][NextFuse]_vars

\* ----------------------------------------------------------------- SpecChunk
\* create_chunks on a text, a chunk_size >= 1 and an overlap in [0, 1), which
\* make overlap_chars any of 0 .. chunk_size - 1.
InitChunk ==
    /\ ck_text \in SeqsUpTo({"a", " "}, MaxText)
    /\ ck_size \in 1..MaxChunkSize
    /\ ck_overlap \in 0..(ck_size - 1)
    /\ ck_start = 0 /\ ck_chunks = <<>> /\ ck_pc = "call"
    /\ SelectIdle /\ ResolveIdle /\ ChatStart /\ FuseIdle /\ IngestIdle

\* a text no longer than chunk_size is returned as the one chunk
CreateChunksWhole ==
    /\ ck_pc = "call"
    /\ Len(ck_text) <= ck_size
    /\ ck_chunks' = <<ck_text>>
    /\ ck_pc' = "done"
    /\ UNCHANGED <<ck_text, ck_size, ck_overlap, ck_start, selVars, ptVars, chatVars,
                   fb, fuseVars, ingestVars>>

\* chunks = [], start = 0, and the loop is entered
CreateChunksLoop ==
    /\ ck_pc = "call"
    /\ Len(ck_text) > ck_size
    /\ ck_start' = 0 /\ ck_chunks' = <<>> /\ ck_pc' = "loop"
    /\ UNCHANGED <<ck_text, ck_size, ck_overlap, selVars, ptVars, chatVars, fb,
                   fuseVars, ingestVars>>

\* one iteration of while start < len(text)
ChunkIterate ==
    /\ ck_pc = "loop"
    /\ Len(ck_chunks) < MaxChunks
    /\ LET end == ChunkEnd(ck_text, ck_size, ck_start)
           chunk == Strip(SubSeq(ck_text, ck_start + 1, end))
           start == NextStart(ck_text, end, ck_overlap)
       IN  /\ ck_chunks' = IF chunk /= <<>> THEN Append(ck_chunks, chunk) ELSE ck_chunks
           /\ IF end = Len(ck_text)
              THEN ck_pc' = "done" /\ ck_start' = ck_start
              ELSE /\ ck_start' = start
                   /\ ck_pc' = IF start < Len(ck_text) THEN "loop" ELSE "done"
    /\ UNCHANGED <<ck_text, ck_size, ck_overlap, selVars, ptVars, chatVars, fb,
                   fuseVars, ingestVars>>

NextChunk == CreateChunksWhole \/ CreateChunksLoop \/ ChunkIterate

SpecChunk == InitChunk /\ [][NextChunk]_vars

\* -------------------------------------------------------------- SpecFeedback
\* Chat requests one after the other on the session s1, and feedback requests
\* at any moment with any session id, timestamp, rating and text.
FeedbackSessions == {"s1", "s2"}
\* the timestamps a client sends: those of the first request's messages and
\* one more, stored or not
FeedbackStamps == {1, 2, 3}
Ratings == {"thumbs_up", "thumbs_down", "text_feedback"}
FeedbackTexts == {"F1"}

NextFeedback ==
    \/ \E r \in Requests :
           \/ Invoke(r, {"s1"}, MaxTurns)
           \/ GetHistory(r)
           \/ GetHistoryKeyError(r)
           \/ Retrieve(r, {PoolOf(<<>>)})
           \/ Tokenize(r, {TokA})
           \/ Generate(r, {AnswerText(req[r].n)})
           \/ Resolve(r)
           \/ SaveUser(r, {1})
           \/ SaveAssistant(r, {0, 1})
           \/ Return(r)
           \/ Except(r)
    \/ Feedback(FeedbackSessions, FeedbackStamps, Ratings, FeedbackTexts, MaxFeedbacks)
    \/ FeedbackFails(MaxFeedbacks)

SpecFeedback == InitChat /\ [][NextFeedback]_vars

\* ----------------------------------------------------------------- SpecRoute
\* Invocations of the routing lambda one after the other on the bucket, with
\* any prefix or with the cache reset event, each S3 call of the cache helpers
\* succeeding or failing.
InitIngest ==
    SelectIdle /\ ResolveIdle /\ ChatStart /\ FuseIdle /\ ChunkIdle /\ IngestIdle

Prefixes == {"", "a/", "b/"}
Outcomes == {"ok", "error"}
NoFault == {"ok"}

NextRoute ==
    \E p \in OneWorker :
        \/ RouteRead(p, Prefixes, Outcomes, MaxRoutes)
        \/ CreateCacheFile(p)
        \/ RouteReread(p, Outcomes)
        \/ RouteWrite(p, Outcomes)
        \/ RouteReturn(p)
        \/ ResetCacheFile(p, Outcomes, MaxRoutes)

SpecRoute == InitIngest /\ [][NextRoute]_vars

\* ---------------------------------------------------------------- SpecIngest
\* Two ingest workers at the same time, each a routing invocation on one of two
\* folders, a cache reset or a PDF processor on a URI the routing lambda
\* returned; no S3 call fails, insert_document succeeds or not.
NextIngest ==
    \E p \in Workers :
        \/ RouteRead(p, {"a/", "b/"}, NoFault, MaxRuns)
        \/ CreateCacheFile(p)
        \/ RouteReread(p, NoFault)
        \/ RouteWrite(p, NoFault)
        \/ RouteReturn(p)
        \/ ResetCacheFile(p, NoFault, MaxRuns)
        \/ ProcessPdf(p, Outcomes, MaxRuns)
        \/ PdfReadCache(p)
        \/ PdfWriteCache(p)

SpecIngest == InitIngest /\ [][NextIngest]_vars

\* ------------------------------------------------------------------ SpecText
\* Two invocations of the text lambda at the same time on the text files of the
\* bucket, each call of the processed-files table and the bulk upload
\* succeeding or failing.
TextUris == {"s3://B/b/2.txt"}

NextText ==
    \E p \in Workers :
        \/ IsFileProcessed(p, TextUris, Outcomes, MaxRuns)
        \/ BulkAdd(p, Outcomes)
        \/ MarkFileProcessed(p, Outcomes)

SpecText == InitIngest /\ [][NextText]_vars

\* ==================================================================== claims

\* ---- C1 (SpecCite)
\* the fields stored under token t in the three views of instance r all come
\* from hit
ViewsFromHit(r, t, hit) ==
    /\ \A k \in 1..Len(req[r].formatted_docs) :
           req[r].formatted_docs[k].uuid = t
               => req[r].formatted_docs[k].passage = hit.passage
    /\ HasKey(req[r].metadata_mapping, t)
           => /\ DictGet(req[r].metadata_mapping, t).title = hit.doc_id
              /\ DictGet(req[r].metadata_mapping, t).member_content_flag = hit.member_content
    /\ DictGet(req[r].source_mapping, t).source_url = hit.source_url

\* C1: within one request, for every reference token handed to the model, the
\* passage listed under it in the model-visible document list, the title and
\* access flag stored under it in the post-processing metadata and the
\* source_url stored under it in the source mapping come from one and the same
\* selected candidate, whatever the selected list (hits without _source, equal
\* minted tokens).
C1_ViewsAgreeOnCandidate ==
    \A r \in Requests :
        req[r].pc = "generate" =>
            \A i \in 1..Len(req[r].simplified_mapping.keys) :
                \E k \in 1..Len(req[r].selected_docs) :
                    /\ req[r].selected_docs[k].has_source
                    /\ ViewsFromHit(r, req[r].simplified_mapping.keys[i],
                                    req[r].selected_docs[k])

\* ---- C2 (SpecCite)
\* the opening of the markdown link built from a hit's title and source url
LinkHead(hit) == <<"[">> \o hit.doc_id \o <<"](">> \o hit.source_url

\* C2: token round-trip: for every token of the citation map given to the model,
\* if the marker <token> occurs in the raw model output, the final response
\* contains the markdown link [title](url... of the candidate the token was
\* minted for.
C2_TokenRoundTrip ==
    \A r \in Requests :
        req[r].pc = "save_user" =>
            \A k \in 1..Len(req[r].minted) :
                Occurs(Marker(req[r].minted[k]), req[r].model_response.text)
                    => Occurs(LinkHead(req[r].selected_docs[
                                  SourcedPositions(req[r].selected_docs, 1)[k]]),
                              req[r].final_response)

\* ---- C3 (SpecResolve)
\* the token of the marker at position i of text
TokenAt(text, i) == SubSeq(text, i + 1, i + TokenLen)

\* C3: graceful degradation: a marker <token> whose token the citation map does
\* not hold never occurs in the output of process_text, and process_text raises
\* only over a token the citation map does hold (an entry lacking a key).
C3_UnknownTokenRemoved ==
    pt_pc = "done" =>
        /\ \A i \in 1..Len(pt_text) :
               (MarkerAt(pt_text, i) /\ ~HasKey(pt_uuid, TokenAt(pt_text, i)))
                   => ~Occurs(Marker(TokenAt(pt_text, i)), pt_out.text)
        /\ pt_out.exc /= "none" =>
               \E i \in 1..Len(pt_text) :
                   /\ MarkerAt(pt_text, i)
                   /\ HasKey(pt_uuid, TokenAt(pt_text, i))

\* process_text returned a non-empty text for an input holding the marker of a
\* token the citation map lacks next to one it resolves
C3_Witness ==
    /\ pt_pc = "done"
    /\ pt_out.exc = "none"
    /\ Occurs(Marker(TokB), pt_text)
    /\ ~HasKey(pt_uuid, TokB)
    /\ Occurs(Marker(TokA), pt_text)
    /\ Occurs(LinkHead(IndexHit(1, 0)), pt_out.text)

\* ---- C4 (SpecSelect)
NonIncreasing(docs) ==
    \A i \in 1..(Len(docs) - 1) : docs[i]._score >= docs[i + 1]._score

\* C4: selection bound: for every pool of P hits and every cap max_docs >= 1 the
\* selector returns exactly min(P, max_docs) hits, ordered by non-increasing
\* score.
C4_SelectionBound ==
    sel_pc = "done" =>
        /\ Len(selected) = Min2(Len(pool), max_docs)
        /\ NonIncreasing(selected)

\* ---- C5 (SpecSelect)
\* docs are n hits of the pool, each taken once, and no hit left out scores
\* higher than one taken
TopOfPool(docs, n) ==
    /\ Len(docs) = n
    /\ \A i \in 1..Len(docs) : \E j \in 1..Len(pool) : docs[i] = pool[j]
    /\ \A i, j \in 1..Len(docs) : i /= j => docs[i].id /= docs[j].id
    /\ \A j \in 1..Len(pool) :
           (\A i \in 1..Len(docs) : docs[i] /= pool[j])
               => \A i \in 1..Len(docs) : pool[j]._score <= docs[i]._score

C6_NeverMoreThanCap ==
    sel_pc = "done" => Len(selected) <= max_docs

\* ---- C7 (SpecChat)
\* the messages of the n newest items of a session, oldest first
NewestMessages(table, session_id, n) ==
    LET items == Prefix(NewestFirst({i \in table : i.session_id = session_id}), n)
    IN  Reverse([k \in 1..Len(items) |-> Message(items[k])])

\* C7: for a session holding k stored messages, get_conversation_history returns
\* the min(k, 5) most recently written ones, oldest first (the newest stored
\* message is the last element).
C7_HistoryIsMostRecentFive ==
    \A r \in Requests :
        req[r].pc = "retrieve" =>
            req[r].history = NewestMessages(store, req[r].session_id, HistoryKeep)

\* ---- C8 (SpecChat)
\* C8: the <conversation_history> block of a request's prompt holds at most 4
\* messages, the most recently stored ones of the session in chronological
\* order, and is absent when the session has no stored message.
C8_PromptHistoryIsMostRecentFour ==
    \A r \in Requests :
        req[r].pc = "generate" =>
            LET recent == NewestMessages(store, req[r].session_id, PromptTurns)
            IN  /\ req[r].history_context.present = (recent /= <<>>)
                /\ Len(req[r].history_context.lines) <= PromptTurns
                /\ req[r].history_context.lines =
                       [k \in 1..Len(recent) |->
                           [role |-> TitleCase(recent[k].role),
                            content |-> recent[k].content]]

\* ---- C9 (SpecChat)
\* invoke_model returned None in the current invocation of instance r
GenerationFailed(r) ==
    /\ req[r].model_response.none
    /\ req[r].pc = "resolve" \/ req[r].raised_at = "resolve"

\* C9: when the generation call fails, lambda_handler never passes the absent
\* value into add_meeting_list or process_text and answers with a
\* could-not-generate-an-answer message of its own, not with the generic error.
C9_FailedGenerationShortCircuits ==
    \A r \in Requests :
        GenerationFailed(r) =>
            /\ req[r].raised_at /= "resolve"
            /\ req[r].pc = "returned" => req[r].response /= ErrorResponse(req[r].exc)

\* ---- C10 (SpecChat)
\* C10: every failure inside lambda_handler, whatever its cause, ends in exactly
\* one response, with status 500 and the fixed body "Error processing message":
\* an exception raised at any step is caught, and no cause-specific status or
\* message is returned.
C10_EveryFailureIsTheSame500 ==
    \A r \in Requests :
        /\ req[r].exc /= "none" => req[r].pc \in {"except", "returned"}
        /\ (req[r].pc = "returned" /\ req[r].exc /= "none") =>
               /\ req[r].response = [statusCode |-> 500, body |-> "Error processing message"]
               /\ req[r].nresp = 1
        /\ (req[r].pc = "returned" /\ req[r].exc = "none") =>
               /\ req[r].response.statusCode = 200
               /\ req[r].nresp = 1

\* an invocation whose second store write failed has returned, the user message
\* of that invocation being stored
C10_Witness ==
    \E r \in Requests :
        /\ req[r].pc = "returned"
        /\ req[r].raised_at = "save_assistant"
        /\ req[r].response.statusCode = 500
        /\ \E i \in store : i.role = "user" /\ i.content = req[r].query

\* ---- C11 (SpecChat)
\* C11: stored conversation messages are never mutated or lost: whatever
\* non-decreasing millisecond timestamps the save_message calls read, every item
\* a save_message call ever put is in the table with the role and content it was
\* written with; no save_message overwrites an earlier message.
C11_NoMessageLost ==
    \A k \in 1..Len(puts) : puts[k].item \in store

\* ---- C12 (SpecChat)
\* the positions in puts of the put_item calls of the invocation instance r runs
PutsOf(r) == {k \in 1..Len(puts) : puts[k].n = req[r].n}

\* the steps of lambda_handler that come before the first save_message
BeforeWrites == {"parse", "history", "retrieve", "tokenize", "generate", "resolve"}

\* C12: in every chat request the history read, retrieval, token assignment,
\* generation and resolution come before the store writes: a request that has
\* not finished resolution, or that failed at one of these steps, has written
\* nothing; the user message is written first, the assistant message second and
\* with the final response text as computed; and the table changes only by the
\* put_item of a request in its write phase.
C12_WritesComeLast ==
    /\ [](\A r \in Requests :
            /\ (req[r].pc \in BeforeWrites \/ req[r].raised_at \in BeforeWrites)
                   => PutsOf(r) = {}
            /\ req[r].pc = "save_user" => PutsOf(r) = {}
            /\ (req[r].pc = "save_assistant" \/ req[r].raised_at = "save_assistant")
                   => \E k \in 1..Len(puts) :
                          /\ PutsOf(r) = {k}
                          /\ puts[k].item.role = "user"
                          /\ puts[k].item.content = req[r].query
            /\ (req[r].pc = "return" \/ (req[r].pc = "returned" /\ req[r].exc = "none"))
                   => \E k, l \in 1..Len(puts) :
                          /\ k < l
                          /\ PutsOf(r) = {k, l}
                          /\ puts[k].item.role = "user"
                          /\ puts[k].item.content = req[r].query
                          /\ puts[l].item.role = "assistant"
                          /\ puts[l].item.content = req[r].final_response)
    /\ [][\A r \in Requests :
              (store' /= store \/ puts' /= puts) =>
                  /\ req[r].pc \in {"save_user", "save_assistant"}
                  /\ puts' = Append(puts, puts'[Len(puts')])
                  /\ store' = PutItem(store, puts'[Len(puts')].item)]_vars

\* an invocation failed in resolution after an earlier one had stored its two
\* messages, and has returned
C12_Witness ==
    \E r \in Requests :
        /\ req[r].pc = "returned"
        /\ req[r].raised_at = "resolve"
        /\ Len(puts) = 2
        /\ PutsOf(r) = {}

\* ---- C13 (SpecConc)
\* the two items the invocation of instance r wrote, as it wrote them
WrittenBy(r) ==
    {Item(req[r].session_id, req[r].user_timestamp, "user", req[r].query, <<>>),
     Item(req[r].session_id, req[r].assistant_timestamp, "assistant",
          req[r].final_response, req[r].document_ids)}

\* instances a and b ran on one session and overlapped: each read the history
\* before the other wrote, and each read a later millisecond for its second
\* write than for its first
RanConcurrently(a, b) ==
    /\ a /= b
    /\ req[a].pc = "returned" /\ req[b].pc = "returned"
    /\ req[a].session_id = req[b].session_id
    /\ req[a].history = <<>> /\ req[b].history = <<>>
    /\ req[a].user_timestamp < req[a].assistant_timestamp
    /\ req[b].user_timestamp < req[b].assistant_timestamp

\* C13: for two chat requests on the same session running concurrently, under
\* every interleaving of their history reads and their four message writes both
\* requests complete with status 200 and all four messages (two user, two
\* assistant) are in the table afterwards.
C13_ConcurrentRequestsKeepAllFour ==
    \A a, b \in Instances :
        RanConcurrently(a, b) =>
            /\ req[a].response.statusCode = 200
            /\ req[b].response.statusCode = 200
            /\ WrittenBy(a) \subseteq store
            /\ WrittenBy(b) \subseteq store
            /\ Cardinality({i \in store : i.session_id = req[a].session_id}) = 4

\* ---- C14 (SpecCite)
\* C14: within one request the reference tokens are pairwise distinct and map
\* one-to-one to the selected candidates: the source mapping has exactly one
\* entry per selected candidate that carries source data, and no two candidates
\* share a token.
C14_TokensOneToOne ==
    \A r \in Requests :
        req[r].pc = "generate" =>
            /\ Len(req[r].source_mapping.keys) = NumSourced(req[r].selected_docs)
            /\ \A i, j \in 1..Len(req[r].minted) :
                   i /= j => req[r].minted[i] /= req[r].minted[j]

\* ---- C15 (SpecAnswer)
\* C15: idempotence: applying the resolver (add_meeting_list followed by
\* process_text, with the same mappings) to a string that is already the
\* resolver's output returns that string unchanged, for every raw model output
\* and every pair of mappings.
C15_ResolverIdempotent ==
    pt_pc = "again" => pt_out = Returned(pt_text)

\* ---- C16 (SpecCite)
\* the tokens of instance r that process_text renders as a citation, as positions
\* in the source mapping
RenderedTokens(r) ==
    {i \in 1..Len(req[r].source_mapping.keys) :
        TokenFound(req[r].source_mapping.keys[i], req[r].source_mapping,
                   req[r].metadata_mapping)}

\* generate_short_uuid returned a different value at each call of instance r
DistinctTokens(r) ==
    \A i, j \in 1..Len(req[r].minted) : i /= j => req[r].minted[i] /= req[r].minted[j]

\* the citation process_text renders for the i-th token of instance r
CitationOf(r, i) ==
    replace_uuid(req[r].source_mapping.keys[i], req[r].source_mapping,
                 req[r].metadata_mapping)

\* C16: badge correctness: every rendered citation carries exactly one of the two
\* badges, [Subscriber-only] when the member-content flag of the candidate the
\* token was minted for (the one whose source url the citation links) is true
\* and [Public] when it is false (checked for requests whose tokens are pairwise
\* distinct).
C16_BadgeMatchesFlag ==
    \A r \in Requests :
        (req[r].pc = "generate" /\ DistinctTokens(r)) =>
            \A i \in RenderedTokens(r) :
                LET flag == req[r].source_mapping.val[i].member_content
                    subscriber == Occurs(<<"[Subscriber-only]">>, CitationOf(r, i))
                    public == Occurs(<<"[Public]">>, CitationOf(r, i))
                IN  /\ subscriber /= public
                    /\ flag = "true" => subscriber
                    /\ flag = "false" => public

\* ---- C17 (SpecCite)
\* C17: a resolved citation link carries the #t=<start_time> suffix if and only
\* if the document type of the candidate the token was minted for is video or
\* podcast and its start time is nonzero; otherwise the link is the bare source
\* url (checked for requests whose tokens are pairwise distinct).
C17_TimestampSuffix ==
    \A r \in Requests :
        (req[r].pc = "generate" /\ DistinctTokens(r)) =>
            \A i \in RenderedTokens(r) :
                LET source_data == req[r].source_mapping.val[i]
                    timed == /\ source_data.doc_type \in {"video", "podcast"}
                             /\ TruthyTime(source_data.start_time)
                IN  /\ Occurs(<<"#t=">>, CitationOf(r, i)) <=> timed
                    /\ timed => Occurs(source_data.source_url
                                          \o <<"#t=", StrOfTime(source_data.start_time)>>
                                          \o <<") -- _">>, CitationOf(r, i))
                    /\ ~timed => Occurs(<<"](">> \o source_data.source_url
                                           \o <<") -- _">>, CitationOf(r, i))

\* ---- C18 (SpecAnswer)
\* token tok stands in text between characters that are no hex digits (or at an
\* end of the text): in a marker, or bare
Cited(tok, text) ==
    \E i \in 1..(Len(text) - TokenLen + 1) :
        /\ SubSeq(text, i, i + TokenLen - 1) = tok
        /\ i = 1 \/ text[i - 1] \notin HexDigits
        /\ i + TokenLen > Len(text) \/ text[i + TokenLen] \notin HexDigits

\* the tokens of metadata_mapping whose folder name and folder url are non-empty
FolderTokens(metadata_mapping) ==
    {metadata_mapping.keys[i] : i \in
        {j \in 1..Len(metadata_mapping.keys) :
            /\ metadata_mapping.val[j].parent_folder_name /= <<>>
            /\ metadata_mapping.val[j].parent_folder_url /= <<>>}}

\* the (folder name, folder url, flag) triple of a token of metadata_mapping
TripleOf(tok, metadata_mapping) ==
    <<DictGet(metadata_mapping, tok).parent_folder_name,
      DictGet(metadata_mapping, tok).parent_folder_url,
      DictGet(metadata_mapping, tok).member_content_flag>>

\* text followed by a "Meetings referenced" section with one bullet per triple
\* of S, in sorted order; text alone when S is empty
WithSection(text, S) ==
    IF S = {} THEN {text}
    ELSE {text \o <<"\n\n**Meetings referenced:**\n">> \o MeetingLines(ms) : ms \in
             {q \in [1..Cardinality(S) -> S] :
                 \A i, j \in 1..Cardinality(S) : i < j => MeetingLess(q[i], q[j])}}

FlagValues == {"true", "false", ""}

\* the documents with the member-content flag of the k-th one set to flags[k]
WithFlags(documents, flags) ==
    [k \in 1..Len(documents) |->
        IF documents[k].has_source
        THEN [documents[k] EXCEPT !.member_content = flags[k]]
        ELSE documents[k]]

\* C19: the model-visible document list holds, per document, only the token, the
\* document name and the passage, and access flags never reach the prompt: two
\* requests whose selected candidates differ only in their member-content flags
\* (same tokens, same history, same query) produce identical prompts.
C19_FlagsNeverReachPrompt ==
    \A r \in Requests :
        req[r].pc = "generate" =>
            /\ \A k \in 1..Len(req[r].formatted_docs) :
                   DOMAIN req[r].formatted_docs[k] = {"uuid", "document_name", "passage"}
            /\ \A flags \in [1..Len(req[r].selected_docs) -> FlagValues] :
                   PromptFor(req[r].history, req[r].query,
                             WithFlags(req[r].selected_docs, flags), req[r].minted)
                       = Prompt(req[r].history_context, req[r].query,
                                req[r].formatted_docs, req[r].simplified_mapping)

\* a prompt was built over a subscriber-only document and a public one, both
\* listed for the model
C19_Witness ==
    \E r \in Requests :
        /\ req[r].pc = "generate"
        /\ Len(req[r].formatted_docs) = 2
        /\ \E k \in 1..Len(req[r].selected_docs) :
               req[r].selected_docs[k].member_content = "true"
        /\ \E k \in 1..Len(req[r].selected_docs) :
               req[r].selected_docs[k].member_content = "false"

\* ---- C20 (SpecSessions)
\* message m (a role and a content) was put into the partition of session_id
PutInto(m, session_id) ==
    \E k \in 1..Len(puts) :
        /\ puts[k].item.session_id = session_id
        /\ puts[k].item.role = m.role
        /\ puts[k].item.content = m.content

\* message m was put into a partition other than that of session_id
PutElsewhere(m, session_id) ==
    \E k \in 1..Len(puts) :
        /\ puts[k].item.session_id /= session_id
        /\ puts[k].item.role = m.role
        /\ puts[k].item.content = m.content

\* the "Role: content" line of the history block as a message
LineMessage(line) ==
    [role |-> IF line.role = "User" THEN "user" ELSE "assistant",
     content |-> line.content]

\* C20: session isolation: a chat request reads history only from, and writes
\* messages only to, the partition of its own session id (the id of the request
\* body, or a generated one when the body has none, which is also the id
\* returned in the response); the history and the history block of a request of
\* session A never hold a message written by a request of another session.
C20_SessionIsolation ==
    /\ [](\A r \in Instances :
            /\ \A k \in 1..Len(req[r].history) :
                   /\ PutInto(req[r].history[k], req[r].session_id)
                   /\ ~PutElsewhere(req[r].history[k], req[r].session_id)
            /\ \A k \in 1..Len(req[r].history_context.lines) :
                   /\ PutInto(LineMessage(req[r].history_context.lines[k]),
                              req[r].session_id)
                   /\ ~PutElsewhere(LineMessage(req[r].history_context.lines[k]),
                                    req[r].session_id)
            /\ \A k \in PutsOf(r) : puts[k].item.session_id = req[r].session_id
            /\ (req[r].pc = "returned" /\ req[r].exc = "none")
                   => req[r].response.body.session_id = req[r].session_id)
    /\ [][\A r \in Instances :
              req'[r] /= req[r] =>
                  {i \in store' : i.session_id /= req[r].session_id}
                      = {i \in store : i.session_id /= req[r].session_id}]_vars

\* a request of a client-named session has built its history block from the two
\* messages of that session while the table holds newer messages of a generated
\* session
C20_Witness ==
    \E r \in Instances :
        /\ req[r].pc = "generate"
        /\ req[r].session_id \in ClientSessions
        /\ Len(req[r].history_context.lines) = 2
        /\ \E i \in store :
               /\ i.session_id \in FreshSessions
               /\ \A j \in store : j.session_id \in ClientSessions
                                       => j.timestamp < i.timestamp

\* ---- C21 (SpecFuse)
NoDuplicateIds(hits) ==
    \A i, j \in 1..Len(hits) : i /= j => hits[i]._id /= hits[j]._id

\* where document i first stands in the two raw lists, the lexical list first
FirstPosition(i) ==
    IF i \in IdsOf(lexical_results) THEN ScoreOf(lexical_results, i)
    ELSE Len(lexical_results) + ScoreOf(semantic_results, i)

C22_StartAdvances ==
    [][(ck_pc = "loop" /\ ck_pc' = "loop") => ck_start' > ck_start]_vars

\* ---- C23 (SpecFeedback)
\* C23: whatever chat and feedback requests were served before it, no chat
\* request fails reading the history (which it does on an item without a role).
C23_FeedbackNeverBreaksHistory ==
    \A r \in Requests : req[r].raised_at /= "history"

\* ---- C24 (SpecConc)
\* the item stored under the session id and the timestamp of a 200 response
AddressedBy(response) ==
    {i \in store : /\ i.session_id = response.body.session_id
                   /\ i.timestamp = response.body.timestamp}

\* C24: the session id and the timestamp of a 200 response are the key of the
\* assistant message with the response's text, also when another request of
\* the session ran at the same time.
C24_TimestampAddressesAnswer ==
    \A a, b \in Instances :
        (RanConcurrently(a, b) /\ req[a].response.statusCode = 200) =>
            \E i \in AddressedBy(req[a].response) :
                i.role = "assistant" /\ i.content = req[a].response.body.response

\* ---- C25 (SpecFeedback)
Addressed(i) == i.session_id = fb'.session_id /\ i.timestamp = fb'.timestamp

\* C25: a feedback request leaves every item but the addressed one as it is,
\* and sets on the addressed item thumb_rating alone (rating thumbs_up or
\* thumbs_down) or feedback_text alone (any other rating); a request answered
\* with 500 changed nothing.
C25_FeedbackFrame ==
    [][fb'.n /= fb.n =>
          /\ fb'.statusCode = 500 => store' = store
          /\ fb'.statusCode = 200 =>
                /\ \A i \in store : ~Addressed(i) => i \in store'
                /\ \A j \in store' : ~Addressed(j) => j \in store
                /\ \A i \in store : Addressed(i) =>
                       {j \in store' : Addressed(j)} =
                           {IF fb'.rating \in {"thumbs_up", "thumbs_down"}
                            THEN [i EXCEPT !.thumb_rating = fb'.rating]
                            ELSE [i EXCEPT !.feedback_text = fb'.feedback_text]}]_vars

\* an assistant message rated thumbs_down, then given a text that kept the rating
C25_Witness ==
    \E i \in store :
        /\ i.role = "assistant" /\ i.content /= <<>>
        /\ i.thumb_rating = "thumbs_down" /\ i.feedback_text = "F1"
        /\ fb.n = 2 /\ fb.rating = "text_feedback"

\* ---- C26 (SpecRoute)
\* C26: between two cache resets no object is returned for processing by more
\* than one invocation of the routing lambda, whether or not an S3 call of the
\* cache helpers failed.
C26_ReturnedAtMostOnce == \A u \in Uris : returned[u] <= 1

\* ---- C27 (SpecIngest)
\* C27: every URI in cache_file.txt is the URI of a document that was inserted
\* into the index.
C27_CachedOnlyAfterInsertion == \A u \in CacheLines : indexed[u] > 0

\* ---- C28 (SpecIngest)
\* C28: once the concurrent cache updates have all finished, every URI one of
\* them wrote into cache_file.txt since the last reset is in it.
C28_CacheKeepsEveryUri ==
    (\A p \in Workers : worker[p].pc \in {"idle", "done"}) =>
        \A p \in Workers : worker[p].added \subseteq CacheLines

\* ---- C29 (SpecText)
\* C29: whatever invocations of the text lambda ran on an s3_uri, one after the
\* other or at the same time, its chunks were bulk-indexed at most once.
C29_IndexedAtMostOnce == \A u \in TextUris : indexed[u] <= 1

\* a "<" of the text with a ">" somewhere after it
HasBracketSpan(text) ==
    \E i, j \in 1..Len(text) : i < j /\ text[i] = "<" /\ text[j] = ">"

\* C30: the text process_text returns holds no span that starts with "<" and
\* ends at a later ">", whatever brackets the titles and URLs of the mappings
\* hold; so it holds no reference-token marker, and process_text called on it
\* with the same mappings returns it unchanged.
C30_NoMarkupLeft ==
    /\ (pt_pc = "done" /\ pt_out.exc = "none") =>
           /\ ~HasBracketSpan(pt_out.text)
           /\ \A i \in 1..Len(pt_out.text) : ~MarkerAt(pt_out.text, i)
    /\ pt_pc = "twice" => pt_out = Returned(pt_text)

\* a marker resolved to a link whose title holds ">", behind a stray "<", was
\* resolved and cleaned, and the second call has returned
C30_Witness ==
    /\ pt_pc = "twice"
    /\ pt_out.exc = "none"
    /\ pt_out.text /= <<>>
    /\ HasKey(pt_uuid, TokA)
    /\ HasKey(pt_meta, TokA)
    /\ DictGet(pt_meta, TokA).title = DocTitle(1) \o <<">">>
    /\ Occurs(<<"](">>, pt_out.text)

====
